---- MODULE Spec2Model ----
(***************************************************************************)
(* A model of the request binder of httpx (src/bind.go): the dispatcher    *)
(* (Bind, BindBody, BindQueryParams), the reflective field walker          *)
(* (bindData) and the coercer (setWithProperType, unmarshalField, the      *)
(* set*Field helpers); and of its Responder (src/responder.go) and         *)
(* HandlerFunc (httpx.go).                                                 *)
(*                                                                         *)
(* Strings are sequences of one-character strings, so that prefixes, case  *)
(* folding and number parsing are computed character by character.         *)
(* Every Go value is a record of one shape (VBase), every error a record   *)
(* of one shape (NoErr), so that any two of them can be compared.          *)
(***************************************************************************)
EXTENDS Integers, Sequences, FiniteSets, TLC

VARIABLES
    phase,   \* "ready": inputs chosen, nothing called yet; "done": one call returned; "serving": calls made on the Responder
    op,      \* the operation of the call: "none", "Bind", "BindBody", "BindQueryParams", "bindData", "setWithProperType"
    req,     \* the *Request: Method, ContentLength, ContentType, Body, Query
    typ,     \* the static type of the bind target (a type descriptor)
    tag,     \* the source kind of a direct bindData call: "form" or "query"
    data,    \* the value map of a direct bindData call
    str,     \* the string of a direct setWithProperType call
    pre,     \* the target's value before the call
    mid,     \* the target's value between the body step and the query step of Bind
    target,  \* the target's value now
    err,     \* the error the call returned
    steps,   \* the decode passes the call performed, in order
    res,     \* the *Responder, with the http.ResponseWriter it wraps
    ctx,     \* the request's context: the error stored under errorKey, NoErr when none
    trace,   \* what the Responder's callers and callees saw happen, in order
    prev,    \* the Responder, the length of the trace and the number of calls before the last call
    chain    \* the handlers a request passes through, outermost first

vars == <<phase, op, req, typ, tag, data, str, pre, mid, target, err, steps, res, ctx, trace, prev, chain>>

----------------------------------------------------------------------------
(* Strings *)

Digits == <<"0", "1", "2", "3", "4", "5", "6", "7", "8", "9">>

IsDigit(c) == \E i \in 1..10 : Digits[i] = c

DigitVal(c) == (CHOOSE i \in 1..10 : Digits[i] = c) - 1

Upper == <<"A", "D", "E", "I", "M", "N", "S", "T", "X">>
Lower == <<"a", "d", "e", "i", "m", "n", "s", "t", "x">>

\* unicode.ToLower on the letters of the model's keys; other characters fold to themselves
FoldChar(c) ==
    IF \E i \in 1..Len(Upper) : Upper[i] = c
    THEN Lower[CHOOSE i \in 1..Len(Upper) : Upper[i] = c]
    ELSE c

\* strings.EqualFold
EqualFold(s, t) ==
    /\ Len(s) = Len(t)
    /\ \A i \in 1..Len(s) : FoldChar(s[i]) = FoldChar(t[i])

\* strings.HasPrefix
HasPrefix(s, prefix) ==
    /\ Len(s) >= Len(prefix)
    /\ SubSeq(s, 1, Len(prefix)) = prefix

----------------------------------------------------------------------------
(* Errors *)

NoErr == [type |-> "nil", code |-> 0, msg |-> <<>>, inner |-> <<>>]

\* errors.New(text)
ErrorString(text) == [type |-> "errorString", code |-> 0, msg |-> <<text>>, inner |-> <<>>]

\* *strconv.NumError{Func, Num, Err}
NumError(func, num, reason) ==
    [type |-> "NumError", code |-> 0,
     msg |-> <<"strconv.", func, ": parsing ">> \o num \o <<": ", reason>>,
     inner |-> <<>>]

IsConversionError(e) == e.type = "NumError"

\* error.Error()
ErrorText(e) == IF e.type = "HTTPError" /\ e.inner # <<>> THEN e.inner[1].msg ELSE e.msg

StatusBadRequest == 400
StatusUnsupportedMediaType == 415

StatusText(code) ==
    CASE code = StatusBadRequest -> <<"bad request">>
      [] code = StatusUnsupportedMediaType -> <<"unsupported media type">>
      [] OTHER -> <<"">>

NewHTTPError(code) ==
    [type |-> "HTTPError", code |-> code, msg |-> StatusText(code), inner |-> <<>>]

WrapHTTPError(e, code, message) ==
    [type |-> "HTTPError", code |-> code, msg |-> message, inner |-> <<e>>]

ErrUnsupportedMediaType == NewHTTPError(StatusUnsupportedMediaType)

----------------------------------------------------------------------------
(* strconv: what ParseInt, ParseUint, ParseBool and ParseFloat do on the   *)
(* strings of the model (base 10, no underscores, no exponents).           *)

AllDigits(s) == \A i \in 1..Len(s) : IsDigit(s[i])

RECURSIVE StripZeros(_)
StripZeros(s) ==
    IF Len(s) > 1 /\ s[1] = "0" THEN StripZeros(Tail(s)) ELSE s

\* s <= t for digit strings without leading zeros
RECURSIVE DigitsLexLE(_, _)
DigitsLexLE(s, t) ==
    IF s = <<>> THEN TRUE
    ELSE IF DigitVal(s[1]) # DigitVal(t[1]) THEN DigitVal(s[1]) < DigitVal(t[1])
    ELSE DigitsLexLE(Tail(s), Tail(t))

DigitsLE(s, t) ==
    LET a == StripZeros(s)
        b == StripZeros(t)
    IN  IF Len(a) # Len(b) THEN Len(a) < Len(b) ELSE DigitsLexLE(a, b)

\* the largest magnitudes of the integer kinds, as digit strings
MaxInt8 == <<"1", "2", "7">>
MaxInt16 == <<"3", "2", "7", "6", "7">>
MaxInt32 == <<"2", "1", "4", "7", "4", "8", "3", "6", "4", "7">>
MaxInt64 == <<"9", "2", "2", "3", "3", "7", "2", "0", "3", "6", "8", "5", "4", "7", "7", "5", "8", "0", "7">>
MinInt8 == <<"1", "2", "8">>
MinInt16 == <<"3", "2", "7", "6", "8">>
MinInt32 == <<"2", "1", "4", "7", "4", "8", "3", "6", "4", "8">>
MinInt64 == <<"9", "2", "2", "3", "3", "7", "2", "0", "3", "6", "8", "5", "4", "7", "7", "5", "8", "0", "8">>
MaxUint8 == <<"2", "5", "5">>
MaxUint16 == <<"6", "5", "5", "3", "5">>
MaxUint32 == <<"4", "2", "9", "4", "9", "6", "7", "2", "9", "5">>
MaxUint64 == <<"1", "8", "4", "4", "6", "7", "4", "4", "0", "7", "3", "7", "0", "9", "5", "5", "1", "6", "1", "5">>

\* bitSize 0 is int/uint, 64 bits wide
IntLimit(bitSize, neg) ==
    CASE bitSize = 8 -> IF neg THEN MinInt8 ELSE MaxInt8
      [] bitSize = 16 -> IF neg THEN MinInt16 ELSE MaxInt16
      [] bitSize = 32 -> IF neg THEN MinInt32 ELSE MaxInt32
      [] OTHER -> IF neg THEN MinInt64 ELSE MaxInt64

UintLimit(bitSize) ==
    CASE bitSize = 8 -> MaxUint8
      [] bitSize = 16 -> MaxUint16
      [] bitSize = 32 -> MaxUint32
      [] OTHER -> MaxUint64

\* strconv.ParseUint(s, base, bitSize) for base 10: [neg, mag, err], the number as its
\* sign and the decimal digits of its magnitude, exact at every width
ParseUint(s, base, bitSize) ==
    IF s = <<>> \/ ~AllDigits(s)
    THEN [neg |-> FALSE, mag |-> <<"0">>, err |-> NumError("ParseUint", s, "invalid syntax")]
    ELSE IF ~DigitsLE(s, UintLimit(bitSize))
    THEN [neg |-> FALSE, mag |-> <<"0">>, err |-> NumError("ParseUint", s, "value out of range")]
    ELSE [neg |-> FALSE, mag |-> StripZeros(s), err |-> NoErr]

\* ParseInt that loses the sign
ParseInt_Magnitude(s, base, bitSize) ==
    LET signed == s # <<>> /\ s[1] \in {"+", "-"}
        mag == IF signed THEN Tail(s) ELSE s
    IN  IF mag = <<>> \/ ~AllDigits(mag)
        THEN [neg |-> FALSE, mag |-> <<"0">>, err |-> NumError("ParseInt", s, "invalid syntax")]
        ELSE IF ~DigitsLE(mag, IntLimit(bitSize, FALSE))
        THEN [neg |-> FALSE, mag |-> <<"0">>, err |-> NumError("ParseInt", s, "value out of range")]
        ELSE [neg |-> FALSE, mag |-> StripZeros(mag), err |-> NoErr]

\* strconv.ParseInt(s, base, bitSize) for base 10: [neg, mag, err]
ParseInt(s, base, bitSize) ==
    LET signed == s # <<>> /\ s[1] \in {"+", "-"}
        neg == s # <<>> /\ s[1] = "-"
        mag == IF signed THEN Tail(s) ELSE s
    IN  IF mag = <<>> \/ ~AllDigits(mag)
        THEN [neg |-> FALSE, mag |-> <<"0">>, err |-> NumError("ParseInt", s, "invalid syntax")]
        ELSE IF ~DigitsLE(mag, IntLimit(bitSize, neg))
        THEN [neg |-> FALSE, mag |-> <<"0">>, err |-> NumError("ParseInt", s, "value out of range")]
        ELSE [neg |-> neg /\ StripZeros(mag) # <<"0">>, mag |-> StripZeros(mag), err |-> NoErr]

TrueWords == {<<"1">>, <<"t">>, <<"T">>, <<"t", "r", "u", "e">>,
              <<"T", "R", "U", "E">>, <<"T", "r", "u", "e">>}
FalseWords == {<<"0">>, <<"f">>, <<"F">>, <<"f", "a", "l", "s", "e">>,
               <<"F", "A", "L", "S", "E">>, <<"F", "a", "l", "s", "e">>}

\* strconv.ParseBool(s): [val, err]
ParseBool(s) ==
    IF s \in TrueWords THEN [val |-> TRUE, err |-> NoErr]
    ELSE IF s \in FalseWords THEN [val |-> FALSE, err |-> NoErr]
    ELSE [val |-> FALSE, err |-> NumError("ParseBool", s, "invalid syntax")]

\* the digits of a decimal without the zeros that end its fraction: [mag, scale]
RECURSIVE Normalize(_, _)
Normalize(mag, scale) ==
    IF scale > 0 /\ mag[Len(mag)] = "0" THEN Normalize(SubSeq(mag, 1, Len(mag) - 1), scale - 1)
    ELSE [mag |-> StripZeros(IF mag = <<>> THEN <<"0">> ELSE mag), scale |-> scale]

\* strconv.ParseFloat(s, bitSize) on plain decimals [+-]digits[.digits]: [neg, mag, scale, err],
\* the decimal mag / 10^scale the string denotes (its rounding to bitSize bits is not
\* modelled); -0 equals 0.
ParseFloat(s, bitSize) ==
    LET signed == s # <<>> /\ s[1] \in {"+", "-"}
        neg == s # <<>> /\ s[1] = "-"
        body == IF signed THEN Tail(s) ELSE s
        dots == {i \in 1..Len(body) : body[i] = "."}
        dot == IF dots = {} THEN Len(body) + 1 ELSE CHOOSE i \in dots : TRUE
        ip == SubSeq(body, 1, dot - 1)
        fp == SubSeq(body, dot + 1, Len(body))
        ok == /\ Cardinality(dots) <= 1
              /\ AllDigits(ip) /\ AllDigits(fp)
              /\ Len(ip) + Len(fp) > 0
        n == Normalize(ip \o fp, Len(fp))
    IN  IF ~ok
        THEN [neg |-> FALSE, mag |-> <<"0">>, scale |-> 0,
              err |-> NumError("ParseFloat", s, "invalid syntax")]
        ELSE [neg |-> neg /\ n.mag # <<"0">>, mag |-> n.mag, scale |-> n.scale, err |-> NoErr]

----------------------------------------------------------------------------
(* Types (what reflect.Type tells the binder) and values.                  *)
(*                                                                         *)
(* A type is [kind, elem, fields, bu, tu]: elem is <<>> or <<element type>> *)
(* (pointers, slices), fields the struct's fields in declaration order, bu *)
(* and tu say whether a pointer to the type implements BindUnmarshaler and *)
(* encoding.TextUnmarshaler.  A field is [name, typ, anon, exported, form, *)
(* query]: the two tags are strings, <<>> when the tag is not set.         *)

IntKinds == {"Int", "Int8", "Int16", "Int32", "Int64"}
UintKinds == {"Uint", "Uint8", "Uint16", "Uint32", "Uint64"}
FloatKinds == {"Float32", "Float64"}
ScalarKinds == IntKinds \cup UintKinds \cup FloatKinds \cup {"Bool"}

BitSize(kind) ==
    CASE kind \in {"Int8", "Uint8"} -> 8
      [] kind \in {"Int16", "Uint16"} -> 16
      [] kind \in {"Int32", "Uint32", "Float32"} -> 32
      [] kind \in {"Int64", "Uint64", "Float64"} -> 64
      [] OTHER -> 0

Basic(kind) == [kind |-> kind, elem |-> <<>>, fields |-> <<>>, bu |-> FALSE, tu |-> FALSE]
PtrTo(t) == [Basic("Ptr") EXCEPT !.elem = <<t>>]
SliceOf(t) == [Basic("Slice") EXCEPT !.elem = <<t>>]
StructOf(fs) == [Basic("Struct") EXCEPT !.fields = fs]
MapOf(t) == [Basic("Map") EXCEPT !.elem = <<t>>]
\* the same type with UnmarshalParam / UnmarshalText declared on its pointer
WithParam(t) == [t EXCEPT !.bu = TRUE]
WithText(t) == [t EXCEPT !.tu = TRUE]

Field(name, t, form, query) ==
    [name |-> name, typ |-> t, anon |-> FALSE, exported |-> TRUE, form |-> form, query |-> query]
Embedded(name, t, form, query) == [Field(name, t, form, query) EXCEPT !.anon = TRUE]
Unexported(f) == [f EXCEPT !.exported = FALSE]

\* reflect.StructTag.Get
TagGet(f, tagName) == IF tagName = "form" THEN f.form ELSE f.query

\* Every value: k says which of the other fields is meant.
\*   "int": the digits s of the magnitude, negative when b
\*   "float": the decimal s / 10^e, negative when b        "bool": b      "string": s
\*   "ptr": sub is <<>> (nil) or <<pointee>>               "slice": sub, the elements
\*   "struct": sub, the fields' values                     "map": m, nil when b is FALSE
\*   "param" / "text": s, the string the type's own decoder was given
VBase == [k |-> "", e |-> 0, b |-> FALSE, s |-> <<>>, sub |-> <<>>, m |-> <<>>]
VInt(neg, mag) == [VBase EXCEPT !.k = "int", !.b = neg, !.s = mag]
VFloat(neg, mag, e) == [VBase EXCEPT !.k = "float", !.b = neg, !.s = mag, !.e = e]
VBool(b) == [VBase EXCEPT !.k = "bool", !.b = b]
VString(s) == [VBase EXCEPT !.k = "string", !.s = s]
VNil == [VBase EXCEPT !.k = "ptr"]
VPtr(v) == [VBase EXCEPT !.k = "ptr", !.sub = <<v>>]
VSlice(vs) == [VBase EXCEPT !.k = "slice", !.sub = vs]
VStruct(vs) == [VBase EXCEPT !.k = "struct", !.sub = vs]
VMap(m) == [VBase EXCEPT !.k = "map", !.b = TRUE, !.m = m]
VNilMap == [VBase EXCEPT !.k = "map"]
VParam(s) == [VBase EXCEPT !.k = "param", !.s = s]
VText(s) == [VBase EXCEPT !.k = "text", !.s = s]

\* the sequence <<F(1), ..., F(n)>>
RECURSIVE Tuple(_, _)
Tuple(F(_), n) == IF n = 0 THEN <<>> ELSE Append(Tuple(F, n - 1), F(n))

\* reflect.Zero / reflect.New(t).Elem()
RECURSIVE Zero(_)
Zero(t) ==
    CASE t.kind \in IntKinds \cup UintKinds -> VInt(FALSE, <<"0">>)
      [] t.kind \in FloatKinds -> VFloat(FALSE, <<"0">>, 0)
      [] t.kind = "Bool" -> VBool(FALSE)
      [] t.kind = "String" -> VString(<<>>)
      [] t.kind = "Ptr" -> VNil
      [] t.kind = "Slice" -> VSlice(<<>>)
      [] t.kind = "Map" -> VNilMap
      [] t.kind = "Struct" -> VStruct(Tuple(LAMBDA i : Zero(t.fields[i].typ), Len(t.fields)))
      [] OTHER -> VBase

----------------------------------------------------------------------------
(* The coercer.  Each operator returns what the Go function returns plus   *)
(* the value the field holds afterwards.                                   *)

\* The decoders a target type declares are the caller's code: here they keep the string
\* they were given and reject the strings that start with "!".
Malformed(s) == s # <<>> /\ s[1] = "!"

CustomDecodeError(s) ==
    [type |-> "CustomDecodeError", code |-> 0, msg |-> <<"cannot decode ">> \o s, inner |-> <<>>]

UnmarshalParam(s, v) ==
    IF Malformed(s) THEN [val |-> v, err |-> CustomDecodeError(s)]
    ELSE [val |-> VParam(s), err |-> NoErr]

UnmarshalText(s, v) ==
    IF Malformed(s) THEN [val |-> v, err |-> CustomDecodeError(s)]
    ELSE [val |-> VText(s), err |-> NoErr]

\* [ok, err, val]
unmarshalFieldNonPtr(value, t, v) ==
    IF t.bu
    THEN LET r == UnmarshalParam(value, v) IN [ok |-> TRUE, err |-> r.err, val |-> r.val]
    ELSE IF t.tu
    THEN LET r == UnmarshalText(value, v) IN [ok |-> TRUE, err |-> r.err, val |-> r.val]
    ELSE [ok |-> FALSE, err |-> NoErr, val |-> v]

unmarshalFieldPtr(value, t, v) ==
    LET pointee == IF v.sub = <<>> THEN Zero(t.elem[1]) ELSE v.sub[1]
        r == unmarshalFieldNonPtr(value, t.elem[1], pointee)
    IN  [ok |-> r.ok, err |-> r.err, val |-> VPtr(r.val)]

unmarshalField(valueKind, value, t, v) ==
    IF valueKind = "Ptr"
    THEN unmarshalFieldPtr(value, t, v)
    ELSE unmarshalFieldNonPtr(value, t, v)

\* setIntField without the default for the empty string
setIntField_NoDefault(value, bitSize, v) ==
    LET r == ParseInt(value, 10, bitSize)
    IN  [val |-> IF r.err = NoErr THEN VInt(r.neg, r.mag) ELSE v, err |-> r.err]

\* [val, err]
setIntField(value, bitSize, v) ==
    LET r == ParseInt(IF value = <<>> THEN <<"0">> ELSE value, 10, bitSize)
    IN  [val |-> IF r.err = NoErr THEN VInt(r.neg, r.mag) ELSE v, err |-> r.err]

setUintField(value, bitSize, v) ==
    LET r == ParseUint(IF value = <<>> THEN <<"0">> ELSE value, 10, bitSize)
    IN  [val |-> IF r.err = NoErr THEN VInt(r.neg, r.mag) ELSE v, err |-> r.err]

setBoolField(value, v) ==
    LET r == ParseBool(IF value = <<>> THEN <<"f", "a", "l", "s", "e">> ELSE value)
    IN  [val |-> IF r.err = NoErr THEN VBool(r.val) ELSE v, err |-> r.err]

setFloatField(value, bitSize, v) ==
    LET r == ParseFloat(IF value = <<>> THEN <<"0", ".", "0">> ELSE value, bitSize)
    IN  [val |-> IF r.err = NoErr THEN VFloat(r.neg, r.mag, r.scale) ELSE v, err |-> r.err]

\* [val, err]
RECURSIVE setWithProperType(_, _, _, _)
setWithProperType(valueKind, value, t, v) ==
    LET u == unmarshalField(valueKind, value, t, v)
    IN  IF u.ok THEN [val |-> u.val, err |-> u.err]
        ELSE CASE valueKind = "Ptr" ->
                    \* u.val is the pointer, allocated by unmarshalFieldPtr when it was nil
                    LET r == setWithProperType(t.elem[1].kind, value, t.elem[1], u.val.sub[1])
                    IN  [val |-> VPtr(r.val), err |-> r.err]
               [] valueKind \in IntKinds -> setIntField(value, BitSize(valueKind), u.val)
               [] valueKind \in UintKinds -> setUintField(value, BitSize(valueKind), u.val)
               [] valueKind = "Bool" -> setBoolField(value, u.val)
               [] valueKind \in FloatKinds -> setFloatField(value, BitSize(valueKind), u.val)
               [] valueKind = "String" -> [val |-> VString(value), err |-> NoErr]
               [] OTHER -> [val |-> u.val, err |-> ErrorString("unknown type")]

----------------------------------------------------------------------------
(* The field walker.  Go ranges over the value map in an unspecified       *)
(* order, so the case-insensitive lookup may pick any key that folds to    *)
(* the tag: bindData and its helpers return the SET of outcomes [val, err] *)
(* the call can have.                                                      *)

\* a run-time panic of the reflect package, ending the call
Panic(text) == [type |-> "panic", code |-> 0, msg |-> <<text>>, inner |-> <<>>]

Done(v) == [val |-> v, err |-> NoErr]
Failed(v, e) == [val |-> v, err |-> e]

\* the lookup that scans for a key equal under case folding before it tries the exact key
Lookup_FoldFirst(d, inputFieldName) ==
    {d[k] : k \in {x \in DOMAIN d : EqualFold(x, inputFieldName)}}

\* the value sequences the lookup of lines 146-158 can find for a tag name; {} when none
Lookup(d, inputFieldName) ==
    IF inputFieldName \in DOMAIN d
    THEN {d[inputFieldName]}
    ELSE {d[k] : k \in {x \in DOMAIN d : EqualFold(x, inputFieldName)}}

\* the slice loop filling the new slice from its last element back
RECURSIVE bindSlice_Prepend(_, _, _, _, _)
bindSlice_Prepend(elemType, inputValue, j, acc, old) ==
    IF j > Len(inputValue) THEN [val |-> VSlice(acc), err |-> NoErr]
    ELSE LET r == setWithProperType(elemType.kind, inputValue[j], elemType, Zero(elemType))
         IN  IF r.err # NoErr THEN [val |-> old, err |-> r.err]
             ELSE bindSlice_Prepend(elemType, inputValue, j + 1, <<r.val>> \o acc, old)

\* lines 172-181: a new slice of len(inputValue) elements, each set from its string;
\* the field is assigned only when every element was set
RECURSIVE bindSlice(_, _, _, _, _)
bindSlice(elemType, inputValue, j, acc, old) ==
    IF j > Len(inputValue) THEN Done(VSlice(acc))
    ELSE LET r == setWithProperType(elemType.kind, inputValue[j], elemType, Zero(elemType))
         IN  IF r.err # NoErr THEN Failed(old, r.err)
             ELSE bindSlice(elemType, inputValue, j + 1, Append(acc, r.val), old)

\* the binding of a found field with the slice rule tried before the field's own decoder
bindValue_SliceFirst(declaredKind, sfType, sfVal, inputValue) ==
    IF sfType.kind = "Slice" /\ Len(inputValue) > 0
    THEN bindSlice(sfType.elem[1], inputValue, 1, <<>>, sfVal)
    ELSE setWithProperType(declaredKind, inputValue[1], sfType, sfVal)

\* lines 164-185: the field's type and value, the kind of the declared type, the values found
bindValue(declaredKind, sfType, sfVal, inputValue) ==
    LET u == unmarshalField(declaredKind, inputValue[1], sfType, sfVal)
    IN  IF u.ok THEN [val |-> u.val, err |-> u.err]
        ELSE IF sfType.kind = "Slice" /\ Len(inputValue) > 0
        THEN bindSlice(sfType.elem[1], inputValue, 1, <<>>, u.val)
        ELSE setWithProperType(declaredKind, inputValue[1], sfType, sfVal)

\* the test of line 137 with either decoder interface counting as a custom decoder
bindsNested_UnlessAnyDecoder(sfType) == ~sfType.bu /\ ~sfType.tu /\ sfType.kind = "Struct"

\* line 137: an untagged field is walked when it is a struct that is no BindUnmarshaler
bindsNested(sfType) == ~sfType.bu /\ sfType.kind = "Struct"

\* the test of line 129 left out
anonymousStructWithTag_Allowed(f, sfType, inputFieldName) == FALSE

\* line 129: an embedded struct that carries a tag
anonymousStructWithTag(f, sfType, inputFieldName) ==
    f.anon /\ sfType.kind = "Struct" /\ inputFieldName # <<>>

RECURSIVE bindData(_, _, _, _)
RECURSIVE bindFields(_, _, _, _, _)
RECURSIVE bindFields_KeepGoing(_, _, _, _, _)
RECURSIVE bindField(_, _, _, _)

\* lines 117-185 for one field f holding fv: the outcomes [val, err], val the field's new value
bindField(f, fv, d, tagName) ==
    LET deref == f.anon /\ f.typ.kind = "Ptr"
        isNil == deref /\ fv.sub = <<>>
        sfType == IF deref THEN f.typ.elem[1] ELSE f.typ
        sfVal == IF deref /\ ~isNil THEN fv.sub[1] ELSE fv
        put(v) == IF deref THEN VPtr(v) ELSE v
        canSet == f.exported /\ ~isNil
        inputFieldName == TagGet(f, tagName)
    IN  IF ~canSet THEN {Done(fv)}
        ELSE IF anonymousStructWithTag(f, sfType, inputFieldName)
        THEN {Failed(fv, ErrorString("query/form tags are not allowed with anonymous struct field"))}
        ELSE IF inputFieldName = <<>>
        THEN IF bindsNested(sfType)
             THEN {[val |-> put(o.val), err |-> o.err] : o \in bindData(sfType, sfVal, d, tagName)}
             ELSE {Done(fv)}
        ELSE IF Lookup(d, inputFieldName) = {} THEN {Done(fv)}
        ELSE IF deref
        THEN \* unmarshalFieldPtr is handed the pointee, which is no pointer
             {Failed(fv, Panic("reflect: call of reflect.Value.IsNil or Elem on a non-pointer Value"))}
        ELSE {bindValue(f.typ.kind, sfType, sfVal, inputValue) : inputValue \in Lookup(d, inputFieldName)}

\* the loop going on to the fields after the one that failed, returning the first error
bindFields_KeepGoing(t, v, d, tagName, i) ==
    IF i > Len(t.fields) THEN {[val |-> v, err |-> NoErr]}
    ELSE UNION {
            {[val |-> r.val, err |-> IF o.err # NoErr THEN o.err ELSE r.err]
                : r \in bindFields_KeepGoing(t, [v EXCEPT !.sub[i] = o.val], d, tagName, i + 1)}
            : o \in bindField(t.fields[i], v.sub[i], d, tagName)}

\* the loop of lines 116-186 from field i on
bindFields(t, v, d, tagName, i) ==
    IF i > Len(t.fields) THEN {Done(v)}
    ELSE UNION {
            IF o.err # NoErr
            THEN {Failed([v EXCEPT !.sub[i] = o.val], o.err)}
            ELSE bindFields(t, [v EXCEPT !.sub[i] = o.val], d, tagName, i + 1)
            : o \in bindField(t.fields[i], v.sub[i], d, tagName)}

\* bindData refusing a target that is no struct whatever the source kind
bindData_RefuseQuery(t, v, d, tagName) ==
    IF t.kind = "Nil" \/ DOMAIN d = {} THEN {[val |-> v, err |-> NoErr]}
    ELSE IF t.kind = "Map"
    THEN IF ~v.b
         THEN {[val |-> v, err |-> Panic("assignment to entry in nil map")]}
         ELSE IF t.elem[1].kind \notin {"String", "Interface"}
         THEN {[val |-> v, err |-> Panic("reflect.Value.SetMapIndex: value of type string is not assignable")]}
         ELSE {[val |-> VMap([k \in DOMAIN v.m \cup DOMAIN d |->
                                IF k \in DOMAIN d THEN d[k][1] ELSE v.m[k]]), err |-> NoErr]}
    ELSE IF t.kind # "Struct"
    THEN {[val |-> v, err |-> ErrorString("binding element must be a struct")]}
    ELSE bindFields(t, v, d, tagName, 1)

\* bindData(destination, data, tag) with destination a pointer to v of type t;
\* the type of kind "Nil" stands for a nil destination
bindData(t, v, d, tagName) ==
    IF t.kind = "Nil" \/ DOMAIN d = {} THEN {Done(v)}
    ELSE IF t.kind = "Map"
    THEN IF ~v.b
         THEN {Failed(v, Panic("assignment to entry in nil map"))}
         ELSE IF t.elem[1].kind \notin {"String", "Interface"}
         THEN {Failed(v, Panic("reflect.Value.SetMapIndex: value of type string is not assignable"))}
         ELSE {Done(VMap([k \in DOMAIN v.m \cup DOMAIN d |->
                            IF k \in DOMAIN d THEN d[k][1] ELSE v.m[k]]))}
    ELSE IF t.kind # "Struct"
    THEN IF tagName = "query" THEN {Done(v)}
         ELSE {Failed(v, ErrorString("binding element must be a struct"))}
    ELSE bindFields(t, v, d, tagName, 1)

----------------------------------------------------------------------------
(* The request and the decoders the dispatcher hands the body to.          *)
(*                                                                         *)
(* A request is [Method, ContentLength, ContentType, Body, Query].  The    *)
(* body is [fmt, fault, doc, form]: fmt says what the bytes are ("json",   *)
(* "xml", "form", "multipart", "empty"), fault what is wrong with them     *)
(* ("none", "syntax", or "http" for a document on which the target's own   *)
(* UnmarshalJSON fails with an *HTTPError), doc the document as a sequence *)
(* of [key, val] members and form the posted form as a value map.          *)

MIMEApplicationJSON == <<"a", "p", "p", "l", "i", "c", "a", "t", "i", "o", "n", "/", "j", "s", "o", "n">>
MIMEApplicationXML == <<"a", "p", "p", "l", "i", "c", "a", "t", "i", "o", "n", "/", "x", "m", "l">>
MIMETextXML == <<"t", "e", "x", "t", "/", "x", "m", "l">>
MIMEApplicationForm == <<"a", "p", "p", "l", "i", "c", "a", "t", "i", "o", "n", "/", "x", "-", "w", "w", "w", "-", "f", "o", "r", "m", "-", "u", "r", "l", "e", "n", "c", "o", "d", "e", "d">>
MIMEMultipartForm == <<"m", "u", "l", "t", "i", "p", "a", "r", "t", "/", "f", "o", "r", "m", "-", "d", "a", "t", "a">>


\* the errors of encoding/json, encoding/xml, net/http and io
JSONSyntaxError == [type |-> "json.SyntaxError", code |-> 0, msg |-> <<"invalid character">>, inner |-> <<>>]
JSONTypeError == [type |-> "json.UnmarshalTypeError", code |-> 0, msg |-> <<"json: cannot unmarshal">>, inner |-> <<>>]
XMLSyntaxError == [type |-> "xml.SyntaxError", code |-> 0, msg |-> <<"XML syntax error on line 1">>, inner |-> <<>>]
XMLOtherError == [type |-> "xml.other", code |-> 0, msg |-> <<"xml: cannot unmarshal">>, inner |-> <<>>]
XMLUnsupportedTypeError == [type |-> "xml.UnsupportedTypeError", code |-> 0, msg |-> <<"xml: unsupported type">>, inner |-> <<>>]
FormParseError == [type |-> "form.ParseError", code |-> 0, msg |-> <<"invalid URL escape">>, inner |-> <<>>]
EOF == [type |-> "io.EOF", code |-> 0, msg |-> <<"EOF">>, inner |-> <<>>]
\* what a target's UnmarshalJSON returns when it rejects a document
TargetHTTPError == [type |-> "HTTPError", code |-> 422, msg |-> <<"rejected">>, inner |-> <<>>]

\* can a document member's value jv be stored in a field of type t
RECURSIVE Fits(_, _)
Fits(t, jv) ==
    CASE t.tu -> jv.k = "string" /\ ~Malformed(jv.s)
      [] t.kind = "String" -> jv.k = "string"
      [] t.kind \in IntKinds -> jv.k = "int" /\ DigitsLE(jv.s, IntLimit(BitSize(t.kind), jv.b))
      [] t.kind \in UintKinds -> jv.k = "int" /\ ~jv.b /\ DigitsLE(jv.s, UintLimit(BitSize(t.kind)))
      [] t.kind \in FloatKinds -> jv.k \in {"int", "float"}
      [] t.kind = "Bool" -> jv.k = "bool"
      [] t.kind = "Ptr" -> Fits(t.elem[1], jv)
      [] t.kind = "Slice" -> jv.k = "slice" /\ \A i \in 1..Len(jv.sub) : Fits(t.elem[1], jv.sub[i])
      [] t.kind = "Interface" -> TRUE
      [] OTHER -> FALSE

\* the value a field of type t holds once jv is stored in it
RECURSIVE Stored(_, _)
Stored(t, jv) ==
    CASE t.tu -> VText(jv.s)
      [] t.kind \in FloatKinds -> VFloat(jv.b, jv.s, jv.e)
      [] t.kind = "Ptr" -> VPtr(Stored(t.elem[1], jv))
      [] t.kind = "Slice" -> VSlice(Tuple(LAMBDA i : Stored(t.elem[1], jv.sub[i]), Len(jv.sub)))
      [] OTHER -> jv

\* the members of a document are stored, in order, in the exported fields they name
\* (case-insensitively); a member that does not fit its field is skipped and reported
RECURSIVE DecodeMembers(_, _, _, _, _)
DecodeMembers(t, v, doc, i, e) ==
    IF i > Len(doc) THEN [val |-> v, err |-> e]
    ELSE LET hit == {j \in 1..Len(t.fields) :
                        t.fields[j].exported /\ EqualFold(t.fields[j].name, doc[i].key)}
         IN  IF hit = {} THEN DecodeMembers(t, v, doc, i + 1, e)
             ELSE LET j == CHOOSE x \in hit : \A y \in hit : x <= y
                  IN  IF Fits(t.fields[j].typ, doc[i].val)
                      THEN DecodeMembers(t, [v EXCEPT !.sub[j] = Stored(t.fields[j].typ, doc[i].val)],
                                         doc, i + 1, e)
                      ELSE DecodeMembers(t, v, doc, i + 1, IF e = NoErr THEN JSONTypeError ELSE e)

\* a document decoded into a target of type t holding v: [val, err]
DecodeDoc(t, v, doc, typeError) ==
    IF t.kind = "Struct"
    THEN LET r == DecodeMembers(t, v, doc, 1, NoErr)
         IN  [val |-> r.val, err |-> IF r.err = NoErr THEN NoErr ELSE typeError]
    ELSE IF t.kind = "Map" /\ t.elem[1].kind \in {"String", "Interface"}
            /\ \A i \in 1..Len(doc) : doc[i].val.k = "string"
    THEN Done(VMap([k \in (IF v.b THEN DOMAIN v.m ELSE {}) \cup {doc[i].key : i \in 1..Len(doc)} |->
                       IF \E i \in 1..Len(doc) : doc[i].key = k
                       THEN doc[CHOOSE i \in 1..Len(doc) :
                                   doc[i].key = k /\ \A j \in 1..Len(doc) : doc[j].key = k => j <= i].val.s
                       ELSE v.m[k]]))
    ELSE Failed(v, typeError)

\* json.NewDecoder(req.Body).Decode(i), line 38-39
JSONDecode(body, t, v) ==
    IF body.fmt = "empty" THEN Failed(v, EOF)
    ELSE IF body.fmt # "json" \/ body.fault = "syntax" THEN Failed(v, JSONSyntaxError)
    ELSE IF body.fault = "http" THEN Failed(v, TargetHTTPError)
    ELSE DecodeDoc(t, v, body.doc, JSONTypeError)

\* xml.NewDecoder(req.Body).Decode(i), line 48
XMLDecode(body, t, v) ==
    IF body.fmt = "empty" THEN Failed(v, EOF)
    ELSE IF body.fmt # "xml" \/ body.fault = "syntax" THEN Failed(v, XMLSyntaxError)
    ELSE DecodeDoc(t, v, body.doc, XMLOtherError)

BodyMethods == {"POST", "PUT", "PATCH"}

\* values of b appended to the values of a, key by key
MergeValues(a, b) ==
    [k \in DOMAIN a \cup DOMAIN b |->
        (IF k \in DOMAIN a THEN a[k] ELSE <<>>) \o (IF k \in DOMAIN b THEN b[k] ELSE <<>>)]

\* the key url.ParseQuery makes of bytes that are no form at all
RawKey == <<"{", "}">>

UrlEncoded(body) ==
    IF body.fmt \in {"form"} THEN body.form
    ELSE IF body.fmt = "empty" THEN <<>>
    ELSE [k \in {RawKey} |-> <<<<>>>>]

\* mime.ParseMediaType: the content type up to its parameters
MediaType(ctype) ==
    LET semis == {i \in 1..Len(ctype) : ctype[i] = ";"}
    IN  IF semis = {} THEN ctype
        ELSE SubSeq(ctype, 1, (CHOOSE i \in semis : \A j \in semis : i <= j) - 1)

\* Request.QueryParams
QueryParams(r) == r.Query

\* Request.FormParams with http.Request.ParseForm and ParseMultipartForm: [params, err].
\* ParseForm reads a url-encoded body of a POST, PUT or PATCH request and puts its values
\* before the query's; ParseMultipartForm puts the multipart values after the query's.
FormParams(r) ==
    IF HasPrefix(r.ContentType, MIMEMultipartForm)
    THEN IF r.Body.fmt # "multipart" \/ r.Body.fault = "syntax"
         THEN [params |-> <<>>, err |-> FormParseError]
         ELSE [params |-> MergeValues(r.Query, r.Body.form), err |-> NoErr]
    ELSE IF r.Method \in BodyMethods /\ MediaType(r.ContentType) = MIMEApplicationForm
    THEN IF r.Body.fault = "syntax"
         THEN [params |-> <<>>, err |-> FormParseError]
         ELSE [params |-> MergeValues(UrlEncoded(r.Body), r.Query), err |-> NoErr]
    ELSE [params |-> r.Query, err |-> NoErr]

----------------------------------------------------------------------------
(* The dispatcher.  Outcomes are [val, err, passes]: passes lists, in      *)
(* order, the strategies run on the target ("noop", "json", "xml", "form", *)
(* "unsupported" for the body, "query" for the query) and whether each     *)
(* returned without error.                                                 *)

Pass(name, e) == [name |-> name, ok |-> e = NoErr]

WithPass(o, pass) == [val |-> o.val, err |-> o.err, passes |-> <<Pass(pass, o.err)>>]

\* an error of the walker or of a decoder, as the caller gets it
BadRequest(e) == WrapHTTPError(e, StatusBadRequest, ErrorText(e))

\* the json case's classification of a decode error, with every error wrapped
jsonError_WrapAll(e) == BadRequest(e)

\* lines 40-45: an error of the JSON decoder as BindBody returns it
jsonError(e) == IF e.type = "HTTPError" THEN e ELSE BadRequest(e)

\* lines 49-54: an error of the XML decoder as BindBody returns it
xmlError(e) ==
    IF e.type = "xml.UnsupportedTypeError"
    THEN WrapHTTPError(e, StatusBadRequest, <<"Unsupported type error: ">> \o e.msg)
    ELSE IF e.type = "xml.SyntaxError"
    THEN WrapHTTPError(e, StatusBadRequest, <<"Syntax error: ">> \o e.msg)
    ELSE BadRequest(e)

\* an error or panic of the walker as BindBody and BindQueryParams return it
walkError(e) == IF e.type = "panic" THEN e ELSE BadRequest(e)

\* lines 35-67: the switch on the content type
decodeBody(r, t, v) ==
    IF HasPrefix(r.ContentType, MIMEApplicationJSON)
    THEN LET o == JSONDecode(r.Body, t, v)
         IN  {WithPass([o EXCEPT !.err = IF o.err = NoErr THEN NoErr ELSE jsonError(o.err)], "json")}
    ELSE IF HasPrefix(r.ContentType, MIMEApplicationXML) \/ HasPrefix(r.ContentType, MIMETextXML)
    THEN LET o == XMLDecode(r.Body, t, v)
         IN  {WithPass([o EXCEPT !.err = IF o.err = NoErr THEN NoErr ELSE xmlError(o.err)], "xml")}
    ELSE IF HasPrefix(r.ContentType, MIMEApplicationForm) \/ HasPrefix(r.ContentType, MIMEMultipartForm)
    THEN LET p == FormParams(r)
         IN  IF p.err # NoErr
             THEN {WithPass(Failed(v, BadRequest(p.err)), "form")}
             ELSE {WithPass([o EXCEPT !.err = IF o.err = NoErr THEN NoErr ELSE walkError(o.err)], "form")
                     : o \in bindData(t, v, p.params, "form")}
    ELSE {WithPass(Failed(v, ErrUnsupportedMediaType), "unsupported")}

\* BindBody without the test of the content length
BindBody_NoLengthCheck(r, t, v) == decodeBody(r, t, v)

BindBody(r, t, v) ==
    IF r.ContentLength = 0 THEN {WithPass(Done(v), "noop")}
    ELSE decodeBody(r, t, v)

BindQueryParams(r, t, v) ==
    {WithPass([o EXCEPT !.err = IF o.err = NoErr THEN NoErr ELSE walkError(o.err)], "query")
        : o \in bindData(t, v, QueryParams(r), "query")}

\* Bind with the two steps in the other order
Bind_QueryFirst(r, t, v) ==
    UNION {
        IF q.err # NoErr \/ r.Method \notin BodyMethods
        THEN {[val |-> q.val, err |-> q.err, passes |-> q.passes, mid |-> q.val]}
        ELSE {[val |-> b.val, err |-> b.err, passes |-> q.passes \o b.passes, mid |-> q.val]
                : b \in BindBody(r, t, q.val)}
        : q \in BindQueryParams(r, t, v)}

\* Bind that goes on to the query step whatever the body step returned
Bind_IgnoreBodyError(r, t, v) ==
    LET first == IF r.Method \in BodyMethods
                 THEN BindBody(r, t, v)
                 ELSE {[val |-> v, err |-> NoErr, passes |-> <<>>]}
    IN  UNION {{[val |-> q.val, err |-> q.err, passes |-> b.passes \o q.passes, mid |-> b.val]
                    : q \in BindQueryParams(r, t, b.val)}
               : b \in first}

\* outcomes [val, err, passes, mid]: mid is the target after the body step
Bind(r, t, v) ==
    LET first == IF r.Method \in BodyMethods
                 THEN BindBody(r, t, v)
                 ELSE {[val |-> v, err |-> NoErr, passes |-> <<>>]}
    IN  UNION {
            IF b.err # NoErr
            THEN {[val |-> b.val, err |-> b.err, passes |-> b.passes, mid |-> b.val]}
            ELSE {[val |-> q.val, err |-> q.err, passes |-> b.passes \o q.passes, mid |-> b.val]
                    : q \in BindQueryParams(r, t, b.val)}
            : b \in first}

----------------------------------------------------------------------------
(* The inputs: target types as a Go program would declare them, value maps *)
(* and requests.                                                           *)

MaxVals == 2     \* values under one key of a value map
MaxStrLen == 3   \* length of the generated strings handed to the coercer

kid == <<"i", "d">>
kID == <<"I", "D">>
kId == <<"I", "d">>
ks == <<"s">>
NoTag == <<>>

Int8T == Basic("Int8")
StringT == Basic("String")

\* type Base struct { ID int8 `form:"id" query:"id"` }
Base == StructOf(<<Field(<<"I", "D">>, Int8T, kid, kid)>>)
\* type Audit struct { S string `form:"s" query:"s"` }
Audit == StructOf(<<Field(<<"S">>, StringT, ks, ks)>>)
\* type meta struct { ID int8 `form:"id" query:"id"` }
Meta == StructOf(<<Field(<<"I", "D">>, Int8T, kid, kid)>>)
\* type Stamp struct { S string `form:"s" query:"s"` }; func (*Stamp) UnmarshalText([]byte) error
Stamp == WithText(StructOf(<<Field(<<"S">>, StringT, ks, ks)>>))
\* type Token struct { ID int8 `form:"id" query:"id"` }; func (*Token) UnmarshalParam(string) error
Token == WithParam(StructOf(<<Field(<<"I", "D">>, Int8T, kid, kid)>>))
\* type IDList []int8; func (*IDList) UnmarshalParam(string) error
IDList == WithParam(SliceOf(Int8T))

\* type Todo struct { S string `form:"s" query:"s"`; ID int8 `form:"id" query:"ID"`; Note string; n int8 `query:"s"` }
Todo == StructOf(<<Field(<<"S">>, StringT, ks, ks), Field(<<"I", "D">>, Int8T, kid, kID),
                   Field(<<"N", "o", "t", "e">>, StringT, NoTag, NoTag),
                   Unexported(Field(<<"n">>, Int8T, ks, ks))>>)
\* type List struct { IDs []int8 `form:"id" query:"id"`; P *int8 `query:"s"`; Names []string `form:"s"` }
List == StructOf(<<Field(<<"I", "D", "s">>, SliceOf(Int8T), kid, kid), Field(<<"P">>, PtrTo(Int8T), NoTag, ks),
                   Field(<<"N", "a", "m", "e", "s">>, SliceOf(StringT), ks, NoTag)>>)
\* type Nested struct { Inner Base; At Stamp; Tok Token; N int8 }
Nested == StructOf(<<Field(<<"I", "n", "n", "e", "r">>, Base, NoTag, NoTag), Field(<<"A", "t">>, Stamp, NoTag, NoTag),
                     Field(<<"T", "o", "k">>, Token, NoTag, NoTag), Field(<<"N">>, Int8T, NoTag, NoTag)>>)
\* type EmbTagged struct { N int8 `form:"s" query:"s"`; Base `form:"id" query:"id"` }
EmbTagged == StructOf(<<Field(<<"N">>, Int8T, ks, ks), Embedded(<<"B", "a", "s", "e">>, Base, kid, kid)>>)
\* type EmbPtrTagged struct { *Audit `form:"s" query:"s"` }
EmbPtrTagged == StructOf(<<Embedded(<<"A", "u", "d", "i", "t">>, PtrTo(Audit), ks, ks)>>)
\* type Emb struct { Base; *Audit; meta }
Emb == StructOf(<<Embedded(<<"B", "a", "s", "e">>, Base, NoTag, NoTag), Embedded(<<"A", "u", "d", "i", "t">>, PtrTo(Audit), NoTag, NoTag),
                  Unexported(Embedded(<<"m", "e", "t", "a">>, Meta, NoTag, NoTag))>>)
\* type Custom struct { IDs IDList `form:"id" query:"id"`; At *Stamp `form:"s" query:"s"`; Toks []Token `query:"Id"` }
Custom == StructOf(<<Field(<<"I", "D", "s">>, IDList, kid, kid), Field(<<"A", "t">>, PtrTo(Stamp), ks, ks),
                     Field(<<"T", "o", "k", "s">>, SliceOf(Token), NoTag, kId)>>)
\* type Scalars struct { B bool `form:"s" query:"s"`; F float64 `form:"id" query:"id"`; U *uint8 `form:"ID" query:"ID"` }
Scalars == StructOf(<<Field(<<"B">>, Basic("Bool"), ks, ks), Field(<<"F">>, Basic("Float64"), kid, kid),
                      Field(<<"U">>, PtrTo(Basic("Uint8")), kID, kID)>>)
\* type Widths struct { I int; I8 int8; I16 int16; I32 int32; I64 int64; U uint; U8 uint8;
\*   U16 uint16; U32 uint32; U64 uint64; B bool; F32 float32; F64 float64 }, every field
\* tagged `form:"s" query:"s"`
Widths == StructOf(<<Field(<<"I">>, Basic("Int"), ks, ks), Field(<<"I", "8">>, Basic("Int8"), ks, ks),
                     Field(<<"I", "1", "6">>, Basic("Int16"), ks, ks), Field(<<"I", "3", "2">>, Basic("Int32"), ks, ks),
                     Field(<<"I", "6", "4">>, Basic("Int64"), ks, ks), Field(<<"U">>, Basic("Uint"), ks, ks),
                     Field(<<"U", "8">>, Basic("Uint8"), ks, ks), Field(<<"U", "1", "6">>, Basic("Uint16"), ks, ks),
                     Field(<<"U", "3", "2">>, Basic("Uint32"), ks, ks), Field(<<"U", "6", "4">>, Basic("Uint64"), ks, ks),
                     Field(<<"B">>, Basic("Bool"), ks, ks), Field(<<"F", "3", "2">>, Basic("Float32"), ks, ks),
                     Field(<<"F", "6", "4">>, Basic("Float64"), ks, ks)>>)
\* map[string]string
StringMap == MapOf(StringT)
\* []string
Strings == SliceOf(StringT)
\* a nil destination
NilDest == Basic("Nil")

TargetNames == {"Todo", "List", "Nested", "EmbTagged", "EmbPtrTagged", "Emb", "Custom",
                "Scalars", "Widths", "StringMap", "Int8", "Strings", "Nil"}

TypeNamed(name) ==
    CASE name = "Todo" -> Todo
      [] name = "List" -> List
      [] name = "Nested" -> Nested
      [] name = "EmbTagged" -> EmbTagged
      [] name = "EmbPtrTagged" -> EmbPtrTagged
      [] name = "Emb" -> Emb
      [] name = "Custom" -> Custom
      [] name = "Scalars" -> Scalars
      [] name = "Widths" -> Widths
      [] name = "StringMap" -> StringMap
      [] name = "Int8" -> Int8T
      [] name = "Strings" -> Strings
      [] OTHER -> NilDest

Old == <<"o", "l", "d">>

\* a value of type t that differs from the zero value wherever it can
RECURSIVE Prior(_)
Prior(t) ==
    CASE t.kind \in IntKinds \cup UintKinds -> VInt(FALSE, <<"7">>)
      [] t.kind \in FloatKinds -> VFloat(FALSE, <<"2", "5">>, 1)
      [] t.kind = "Bool" -> VBool(TRUE)
      [] t.kind = "String" -> VString(Old)
      [] t.kind = "Ptr" -> VPtr(Prior(t.elem[1]))
      [] t.kind = "Slice" -> VSlice(<<Prior(t.elem[1])>>)
      [] t.kind = "Map" -> VMap([k \in {ks} |-> Old])
      [] t.kind = "Struct" -> VStruct(Tuple(LAMBDA i : Prior(t.fields[i].typ), Len(t.fields)))
      [] OTHER -> VBase

\* the target as the caller hands it over: freshly declared, or holding earlier values
InitialValue(t, fresh) == IF fresh THEN Zero(t) ELSE Prior(t)

DataStrs == {<<>>, <<"1">>, <<"!">>}

ValueSeqs == UNION {[1..n -> DataStrs] : n \in 1..MaxVals}

KeySets == {{}, {kid}, {kID}, {kId}, {ks}, {kid, kID}, {kid, kId}, {kid, ks}}

\* the value maps: every key has at least one value
ValueMaps == UNION {[keys -> ValueSeqs] : keys \in KeySets}

\* the strings handed to the coercer
NumChars == {"0", "1", "2", "8", "-", "+", ".", "!"}
Words == {<<"t", "r", "u", "e">>, <<"f", "a", "l", "s", "e">>, <<"T">>, <<"f">>, <<"T", "r", "u", "e">>, <<"y", "e", "s">>, <<"3", "2", "7", "6", "7">>, <<"3", "2", "7", "6", "8">>, <<"-", "3", "2", "7", "6", "8">>, <<"-", "3", "2", "7", "6", "9">>,
          <<"6", "5", "5", "3", "5">>, <<"6", "5", "5", "3", "6">>, <<"2", "1", "4", "7", "4", "8", "3", "6", "4", "7">>, <<"2", "1", "4", "7", "4", "8", "3", "6", "4", "8">>, <<"-", "2", "1", "4", "7", "4", "8", "3", "6", "4", "8">>, <<"-", "2", "1", "4", "7", "4", "8", "3", "6", "4", "9">>,
          <<"4", "2", "9", "4", "9", "6", "7", "2", "9", "5">>, <<"4", "2", "9", "4", "9", "6", "7", "2", "9", "6">>, <<"9", "2", "2", "3", "3", "7", "2", "0", "3", "6", "8", "5", "4", "7", "7", "5", "8", "0", "7">>, <<"9", "2", "2", "3", "3", "7", "2", "0", "3", "6", "8", "5", "4", "7", "7", "5", "8", "0", "8">>,
          <<"-", "9", "2", "2", "3", "3", "7", "2", "0", "3", "6", "8", "5", "4", "7", "7", "5", "8", "0", "8">>, <<"-", "9", "2", "2", "3", "3", "7", "2", "0", "3", "6", "8", "5", "4", "7", "7", "5", "8", "0", "9">>, <<"1", "8", "4", "4", "6", "7", "4", "4", "0", "7", "3", "7", "0", "9", "5", "5", "1", "6", "1", "5">>,
          <<"1", "8", "4", "4", "6", "7", "4", "4", "0", "7", "3", "7", "0", "9", "5", "5", "1", "6", "1", "6">>, <<"1", "2", "7">>, <<"1", "2", "8">>, <<"-", "1", "2", "8">>, <<"-", "1", "2", "9">>, <<"2", "5", "5">>, <<"2", "5", "6">>, <<"0", "0", "7">>, <<"1", ".", "5", "0">>}
Strs == UNION {[1..n -> NumChars] : n \in 0..MaxStrLen} \cup Words

\* the types of the fields handed to the coercer
CoerceKinds == ScalarKinds \cup {"String", "PtrInt8", "PtrPtrBool", "PtrStamp", "Token", "Struct", "Slice"}

CoerceType(name) ==
    CASE name \in ScalarKinds \cup {"String"} -> Basic(name)
      [] name = "PtrInt8" -> PtrTo(Int8T)
      [] name = "PtrPtrBool" -> PtrTo(PtrTo(Basic("Bool")))
      [] name = "PtrStamp" -> PtrTo(Stamp)
      [] name = "Token" -> Token
      [] name = "Struct" -> Base
      [] OTHER -> SliceOf(Int8T)

Methods == {"GET", "POST", "PUT", "PATCH"}
ContentLengths == {0, 9, -1}
ContentTypes == {MIMEApplicationJSON, MIMEApplicationJSON \o <<";", " ", "c", "h", "a", "r", "s", "e", "t", "=", "u", "t", "f", "-", "8">>,
                 MIMEApplicationXML, MIMETextXML, MIMEApplicationForm,
                 MIMEMultipartForm \o <<";", " ", "b", "o", "u", "n", "d", "a", "r", "y", "=", "x">>, <<"t", "e", "x", "t", "/", "p", "l", "a", "i", "n">>, <<>>}

Pending == <<"p", "e", "n", "d", "i", "n", "g">>
DoneStr == <<"d", "o", "n", "e">>

Member(key, val) == [key |-> key, val |-> val]
\* value maps of one and of two keys
Values1(k, vs) == [x \in {k} |-> vs]
Values2(k1, vs1, k2, vs2) == [x \in {k1, k2} |-> IF x = k1 THEN vs1 ELSE vs2]
BodyOf(fmt, fault, doc, form) == [fmt |-> fmt, fault |-> fault, doc |-> doc, form |-> form]

Bodies == {
    \* {"s": "pending", "id": 5}
    BodyOf("json", "none", <<Member(ks, VString(Pending)), Member(kid, VInt(FALSE, <<"5">>))>>, <<>>),
    \* {"id": "five", "s": "pending"}: a member of the wrong type
    BodyOf("json", "none", <<Member(kid, VString(<<"f", "i", "v", "e">>)), Member(ks, VString(Pending))>>, <<>>),
    BodyOf("json", "syntax", <<>>, <<>>),
    BodyOf("json", "http", <<>>, <<>>),
    \* <Todo><S>pending</S></Todo>
    BodyOf("xml", "none", <<Member(<<"S">>, VString(Pending))>>, <<>>),
    BodyOf("xml", "syntax", <<>>, <<>>),
    \* s=pending&id=5
    BodyOf("form", "none", <<>>, Values2(ks, <<Pending>>, kid, <<<<"5">>>>)),
    \* id=!
    BodyOf("form", "none", <<>>, Values1(kid, <<<<"!">>>>)),
    BodyOf("form", "syntax", <<>>, <<>>),
    BodyOf("multipart", "none", <<>>, Values1(ks, <<Pending>>)),
    BodyOf("empty", "none", <<>>, <<>>)}

Queries == {<<>>,
            Values1(ks, <<DoneStr>>),
            Values1(kID, <<<<"1">>>>),
            Values1(kid, <<<<"1">>, <<"!">>>>),
            Values2(ks, <<DoneStr>>, kid, <<<<"!">>>>)}

RequestTargets == {"Todo", "List", "StringMap", "Int8"}

NoRequest == [Method |-> "GET", ContentLength |-> 0, ContentType |-> <<>>,
              Body |-> BodyOf("empty", "none", <<>>, <<>>), Query |-> <<>>]

----------------------------------------------------------------------------
(* The Responder (responder.go).  An operation takes and returns the       *)
(* serving state s = [res, ctx, trace]: the Responder with the writer it   *)
(* wraps, the request's context and the trace.  The writer is [header,     *)
(* codes, body, broken]: the header map, the status codes WriteHeader was  *)
(* called with, the byte strings written, and whether its connection is    *)
(* broken, so that Write fails.  The functions registered with Before and  *)
(* After are the caller's code: function k leaves an event in the trace.   *)

StatusOK == 200
StatusInternalServerError == 500

errInvalidRedirectCode == ErrorString("invalid redirect status code")
errHeaderAlreadyCommitted == ErrorString("response already committed")
\* what a write on a broken connection returns
ErrBrokenPipe == ErrorString("write: broken pipe")

NoHeader == [ContentType |-> <<>>, ContentLength |-> <<>>, Location |-> <<>>]

\* an http.ResponseWriter nothing was written to
NewWriter(broken) == [header |-> NoHeader, codes |-> <<>>, body |-> <<>>, broken |-> broken]

NewResponder(w) ==
    [beforeFuncs |-> <<>>, afterFuncs |-> <<>>, Size |-> 0, Committed |-> FALSE,
     StatusCode |-> 0, Writer |-> w]

Event(ev, n, text) == [ev |-> ev, n |-> n, text |-> text, err |-> NoErr]
Emit(s, ev, n, text) == [s EXCEPT !.trace = Append(@, Event(ev, n, text))]

\* for _, fn := range funcs { fn() }
RECURSIVE RunFuncs(_, _, _, _)
RunFuncs(s, ev, funcs, i) ==
    IF i > Len(funcs) THEN s ELSE RunFuncs(Emit(s, ev, funcs[i], <<>>), ev, funcs, i + 1)

writeContentType(s, value) ==
    IF s.res.Writer.header.ContentType = <<>>
    THEN [s EXCEPT !.res.Writer.header.ContentType = value]
    ELSE s

Before(s, fn) == [s EXCEPT !.res.beforeFuncs = Append(@, fn)]
After(s, fn) == [s EXCEPT !.res.afterFuncs = Append(@, fn)]

\* WriteHeader that sends the header whether or not one was sent before
WriteHeader_Again(s, code) ==
    LET s1 == [s EXCEPT !.res.StatusCode = code]
        s2 == RunFuncs(s1, "beforeFunc", s1.res.beforeFuncs, 1)
        s3 == Emit([s2 EXCEPT !.res.Writer.codes = Append(@, code)], "Writer.WriteHeader", code, <<>>)
    IN  [s3 EXCEPT !.res.Committed = TRUE]

WriteHeader(s, code) ==
    IF s.res.Committed
    THEN Emit(s, "Logger", 0, errHeaderAlreadyCommitted.msg)
    ELSE LET s1 == [s EXCEPT !.res.StatusCode = code]
             s2 == RunFuncs(s1, "beforeFunc", s1.res.beforeFuncs, 1)
             s3 == Emit([s2 EXCEPT !.res.Writer.codes = Append(@, code)], "Writer.WriteHeader", code, <<>>)
         IN  [s3 EXCEPT !.res.Committed = TRUE]

writeHeader(s) ==
    LET s1 == IF s.res.StatusCode <= 0 THEN [s EXCEPT !.res.StatusCode = StatusOK] ELSE s
    IN  WriteHeader(s1, s1.res.StatusCode)

\* [s, n, err]
Write(s, b) ==
    LET s1 == IF ~s.res.Committed THEN writeHeader(s) ELSE s
        broken == s1.res.Writer.broken
        n == IF broken THEN 0 ELSE Len(b)
        s2 == Emit([s1 EXCEPT !.res.Writer.body = IF broken THEN @ ELSE Append(@, b),
                              !.res.Size = @ + n], "Writer.Write", n, b)
        s3 == RunFuncs(s2, "afterFunc", s2.res.afterFuncs, 1)
    IN  [s |-> s3, n |-> n, err |-> IF broken THEN ErrBrokenPipe ELSE NoErr]

Status(s, code) == [s EXCEPT !.res.StatusCode = code]

\* the helpers return [s, err]
Blob(s, contentType, b) ==
    LET w == Write(writeHeader(writeContentType(s, contentType)), b)
    IN  [s |-> w.s, err |-> w.err]

MIMETextHTMLCharsetUTF8 == <<"t", "e", "x", "t", "/", "h", "t", "m", "l", ";", " ", "c", "h", "a", "r", "s", "e", "t", "=", "U", "T", "F", "-", "8">>
MIMETextPlainCharsetUTF8 == <<"t", "e", "x", "t", "/", "p", "l", "a", "i", "n", ";", " ", "c", "h", "a", "r", "s", "e", "t", "=", "U", "T", "F", "-", "8">>
MIMEApplicationJSONCharsetUTF8 == MIMEApplicationJSON \o <<";", " ", "c", "h", "a", "r", "s", "e", "t", "=", "U", "T", "F", "-", "8">>
MIMEApplicationXMLCharsetUTF8 == MIMEApplicationXML \o <<";", " ", "c", "h", "a", "r", "s", "e", "t", "=", "U", "T", "F", "-", "8">>

HTML(s, html) == Blob(s, MIMETextHTMLCharsetUTF8, html)
String(s, text) == Blob(s, MIMETextPlainCharsetUTF8, text)

\* the values handed to JSON and XML are [ok, text]: whether the encoder can encode the
\* value, and the bytes it encodes it to
EncodeError == ErrorString("unsupported type")

JSON(s, i) ==
    LET s1 == writeHeader(writeContentType(s, MIMEApplicationJSONCharsetUTF8))
    IN  IF ~i.ok THEN [s |-> s1, err |-> EncodeError]
        ELSE LET w == Write(s1, i.text) IN [s |-> w.s, err |-> w.err]

\* xml.Header
XMLHeader == <<"<", "?", "x", "m", "l", "?", ">">>

XML(s, i) ==
    LET s1 == writeHeader(writeContentType(s, MIMEApplicationXMLCharsetUTF8))
        h == Write(s1, XMLHeader)
    IN  IF h.err # NoErr THEN [s |-> h.s, err |-> h.err]
        ELSE IF ~i.ok THEN [s |-> h.s, err |-> EncodeError]
        ELSE LET w == Write(h.s, i.text) IN [s |-> w.s, err |-> w.err]

\* io.Copy(r, reader): one Write for each chunk read, until a Write fails
RECURSIVE Copy(_, _, _)
Copy(s, chunks, i) ==
    IF i > Len(chunks) THEN [s |-> s, err |-> NoErr]
    ELSE LET w == Write(s, chunks[i])
         IN  IF w.err # NoErr THEN [s |-> w.s, err |-> w.err] ELSE Copy(w.s, chunks, i + 1)

Stream(s, contentType, chunks) ==
    Copy(writeHeader(writeContentType(s, contentType)), chunks, 1)

NoContent(s) == [s |-> writeHeader(s), err |-> NoErr]

Redirect(s, url) ==
    IF s.res.StatusCode < 300 \/ s.res.StatusCode > 308
    THEN [s |-> s, err |-> errInvalidRedirectCode]
    ELSE [s |-> writeHeader([s EXCEPT !.res.Writer.header.Location = url]), err |-> NoErr]

----------------------------------------------------------------------------

(* HandlerFunc, H and the default error handler (httpx.go).  The handlers  *)
(* a request passes through are a chain, outermost first: middlewares, each*)
(* a HandlerFunc that calls H(next) and returns, and at the end the        *)
(* handler proper.  A middleware is [kind, mode]: it returns the error H   *)
(* gave it ("pass") or nil ("swallow").  The handler is [kind, act, ret]:  *)
(* it sends a response ("String"), only a header ("WriteHeader") or        *)
(* nothing ("none"), and returns the error ret.                            *)

StatusNotFound == 404

\* ErrNotFound = NewHTTPError(http.StatusNotFound)
ErrNotFound ==
    [type |-> "HTTPError", code |-> StatusNotFound,
     msg |-> <<"n", "o", "t", " ", "f", "o", "u", "n", "d">>, inner |-> <<>>]

\* an error that is no *HTTPError
ErrPlain == ErrorString("boom")

\* http.StatusText(http.StatusInternalServerError), shortened
InternalServerErrorText == <<"I", "n", "t", "e", "r", "n", "a", "l">>

OkText == <<"o", "k">>

\* the default error handler with the test of Committed left out
HandleHTTPError_Always(expose, method, s, e) ==
    LET he == IF e.type = "HTTPError" THEN e
              ELSE [type |-> "HTTPError", code |-> StatusInternalServerError,
                    msg |-> InternalServerErrorText, inner |-> <<>>]
        s1 == Status(s, he.code)
        message == IF expose THEN ErrorText(e) ELSE he.msg
        r == IF method = "HEAD" THEN NoContent(s1) ELSE String(s1, message)
    IN  IF r.err # NoErr THEN Emit(r.s, "Logger", 0, r.err.msg) ELSE r.s

\* HandleHTTPError(expose)(req, res, err)
HandleHTTPError(expose, method, s, e) ==
    IF s.res.Committed THEN s
    ELSE LET he == IF e.type = "HTTPError" THEN e
                   ELSE [type |-> "HTTPError", code |-> StatusInternalServerError,
                         msg |-> InternalServerErrorText, inner |-> <<>>]
             s1 == Status(s, he.code)
             message == IF expose THEN ErrorText(e) ELSE he.msg
             r == IF method = "HEAD" THEN NoContent(s1) ELSE String(s1, message)
         IN  IF r.err # NoErr THEN Emit(r.s, "Logger", 0, r.err.msg) ELSE r.s

Middleware(mode) == [kind |-> "middleware", mode |-> mode, act |-> "none", ret |-> NoErr]
Handler(act, ret) == [kind |-> "handler", mode |-> "none", act |-> act, ret |-> ret]

\* the handler proper: [s, err]
RunHandler(h, s) ==
    CASE h.act = "String" -> [s |-> String(s, OkText).s, err |-> h.ret]
      [] h.act = "WriteHeader" -> [s |-> WriteHeader(s, 204), err |-> h.ret]
      [] OTHER -> [s |-> s, err |-> h.ret]

\* H(handler)(req, res) once handler.ServeHTTP has returned the state served: the error
\* stored in the request's context, if any; [s, err]
H(served, i) ==
    [s |-> [served EXCEPT !.trace = Append(@, [ev |-> "H", n |-> i, text |-> <<>>, err |-> served.ctx])],
     err |-> served.ctx]

\* HandlerFunc.ServeHTTP of the i-th handler of the chain hs
RECURSIVE ServeHTTP(_, _, _, _, _)
ServeHTTP(hs, i, method, expose, s) ==
    LET h == hs[i]
        inner == H(ServeHTTP(hs, i + 1, method, expose, s), i)
        called == IF h.kind = "handler" THEN RunHandler(h, s)
                  ELSE [s |-> inner.s, err |-> IF h.mode = "pass" THEN inner.err ELSE NoErr]
    IN  IF called.err # NoErr
        THEN HandleHTTPError(expose, method,
                Emit([called.s EXCEPT !.ctx = called.err], "HTTPErrorHandler", i, called.err.msg),
                called.err)
        ELSE called.s

----------------------------------------------------------------------------

(* The state machine: the caller's inputs are chosen, then one operation   *)
(* is called on them and returns.                                          *)

\* no Responder is being written to
NoServing ==
    /\ res = NewResponder(NewWriter(FALSE))
    /\ ctx = NoErr
    /\ trace = <<>>
    /\ prev = [res |-> res, at |-> 0, calls |-> 0]
    /\ chain = <<>>

\* nothing is being bound
NoBinding ==
    /\ typ = NilDest
    /\ target = Zero(NilDest)
    /\ tag = "query"
    /\ data = <<>>
    /\ str = <<>>
    /\ pre = target
    /\ mid = target
    /\ err = NoErr
    /\ steps = <<>>

Idle ==
    /\ phase = "ready"
    /\ op = "none"
    /\ pre = target
    /\ mid = target
    /\ err = NoErr
    /\ steps = <<>>
    /\ NoServing

\* a handler holding a request and a target to bind it to
Init ==
    /\ \E m \in Methods, n \in ContentLengths, c \in ContentTypes, b \in Bodies, q \in Queries :
          req = [Method |-> m, ContentLength |-> n, ContentType |-> c, Body |-> b, Query |-> q]
    /\ \E name \in RequestTargets, fresh \in BOOLEAN :
          /\ typ = TypeNamed(name)
          /\ target = InitialValue(TypeNamed(name), fresh)
    /\ tag = "query"
    /\ data = <<>>
    /\ str = <<>>
    /\ Idle

\* a caller of the walker holding a value map and a target
InitWalk ==
    /\ req = NoRequest
    /\ \E name \in TargetNames, fresh \in BOOLEAN :
          /\ typ = TypeNamed(name)
          /\ target = InitialValue(TypeNamed(name), fresh)
    /\ tag \in {"form", "query"}
    /\ data \in ValueMaps
    /\ str = <<>>
    /\ Idle

\* a caller of the coercer holding a string and a field
InitCoerce ==
    /\ req = NoRequest
    /\ \E name \in CoerceKinds, fresh \in BOOLEAN :
          /\ typ = CoerceType(name)
          /\ target = InitialValue(CoerceType(name), fresh)
    /\ tag = "query"
    /\ data = <<>>
    /\ str \in Strs
    /\ Idle

Return(name, o, passes, between) ==
    /\ phase' = "done"
    /\ op' = name
    /\ pre' = target
    /\ mid' = between
    /\ target' = o.val
    /\ err' = o.err
    /\ steps' = passes
    /\ UNCHANGED <<req, typ, tag, data, str, res, ctx, trace, prev, chain>>

CallBind ==
    /\ phase = "ready"
    /\ \E o \in Bind(req, typ, target) : Return("Bind", o, o.passes, o.mid)

CallBindBody ==
    /\ phase = "ready"
    /\ \E o \in BindBody(req, typ, target) : Return("BindBody", o, o.passes, target)

CallBindQueryParams ==
    /\ phase = "ready"
    /\ \E o \in BindQueryParams(req, typ, target) : Return("BindQueryParams", o, o.passes, target)

CallBindData ==
    /\ phase = "ready"
    /\ \E o \in bindData(typ, target, data, tag) :
          Return("bindData", o, <<Pass(tag, o.err)>>, target)

CallSetWithProperType ==
    /\ phase = "ready"
    /\ LET o == setWithProperType(typ.kind, str, typ, target)
       IN  Return("setWithProperType", o, <<>>, target)

\* the calls made on one Responder, the functions registered on it and the chunks of a
\* stream are bounded
MaxCalls == 3
MaxFuncs == 2
MaxChunks == 2

\* the status codes handed to WriteHeader and to Status (Status also takes 0 and -1)
Codes == {StatusOK, 302, StatusNotFound}
Payloads == {OkText, <<>>}
Encodables == {[ok |-> TRUE, text |-> OkText], [ok |-> FALSE, text |-> <<>>]}
Chunks == UNION {[1..n -> {OkText}] : n \in 0..MaxChunks}
Url == <<"/">>

\* a handler holding a fresh Responder on a writer whose connection may be broken
InitServe ==
    /\ phase = "ready"
    /\ op = "none"
    /\ req = NoRequest
    /\ NoBinding
    /\ \E broken \in BOOLEAN : res = NewResponder(NewWriter(broken))
    /\ ctx = NoErr
    /\ trace = <<>>
    /\ prev = [res |-> res, at |-> 0, calls |-> 0]
    /\ chain = <<>>

ChainsOf(n) ==
    {[i \in 1..n |-> IF i = n THEN h ELSE ms[i]] :
        ms \in [1..(n - 1) -> {Middleware("pass"), Middleware("swallow")}],
        h \in {Handler(act, ret) : act \in {"none", "String", "WriteHeader"},
                                     ret \in {NoErr, ErrNotFound, ErrPlain}}}

\* the chain is bounded
MaxLayers == 3
Chains == UNION {ChainsOf(n) : n \in 1..MaxLayers}

\* a server about to pass a request to the outermost handler of a chain
InitHandle ==
    /\ phase = "ready"
    /\ op = "none"
    /\ \E m \in {"GET", "HEAD"} : req = [NoRequest EXCEPT !.Method = m]
    /\ NoBinding
    /\ \E broken \in BOOLEAN : res = NewResponder(NewWriter(broken))
    /\ ctx = NoErr
    /\ trace = <<>>
    /\ prev = [res |-> res, at |-> 0, calls |-> 0]
    /\ chain \in Chains

\* a call on the Responder returns the serving state s and the error e
Served(name, s, e) ==
    /\ phase' = "serving"
    /\ op' = name
    /\ err' = e
    /\ res' = s.res
    /\ ctx' = s.ctx
    /\ trace' = s.trace
    /\ prev' = [res |-> res, at |-> Len(trace), calls |-> prev.calls + 1]
    /\ UNCHANGED <<req, typ, tag, data, str, pre, mid, target, steps, chain>>

Serving == [res |-> res, ctx |-> ctx, trace |-> trace]
CanCall == prev.calls < MaxCalls

CallBefore ==
    /\ CanCall /\ Len(res.beforeFuncs) < MaxFuncs
    /\ \E fn \in 1..MaxFuncs : Served("Before", Before(Serving, fn), NoErr)

CallAfter ==
    /\ CanCall /\ Len(res.afterFuncs) < MaxFuncs
    /\ \E fn \in 1..MaxFuncs : Served("After", After(Serving, fn), NoErr)

\* res.Header().Set("Content-Length", "2")
CallHeaderSet ==
    /\ CanCall
    /\ Served("Header", [Serving EXCEPT !.res.Writer.header.ContentLength = <<"2">>], NoErr)

CallWriteHeader ==
    /\ CanCall
    /\ \E code \in Codes : Served("WriteHeader", WriteHeader(Serving, code), NoErr)

CallWrite ==
    /\ CanCall
    /\ \E b \in Payloads : LET w == Write(Serving, b) IN Served("Write", w.s, w.err)

CallStatus ==
    /\ CanCall
    /\ \E code \in Codes \cup {0, -1} : Served("Status", Status(Serving, code), NoErr)

CallString ==
    /\ CanCall
    /\ LET o == String(Serving, OkText) IN Served("String", o.s, o.err)

CallHTML ==
    /\ CanCall
    /\ LET o == HTML(Serving, OkText) IN Served("HTML", o.s, o.err)

CallJSON ==
    /\ CanCall
    /\ \E i \in Encodables : LET o == JSON(Serving, i) IN Served("JSON", o.s, o.err)

CallXML ==
    /\ CanCall
    /\ \E i \in Encodables : LET o == XML(Serving, i) IN Served("XML", o.s, o.err)

CallBlob ==
    /\ CanCall
    /\ \E b \in Payloads : LET o == Blob(Serving, MIMEApplicationJSON, b) IN Served("Blob", o.s, o.err)

CallStream ==
    /\ CanCall
    /\ \E cs \in Chunks : LET o == Stream(Serving, MIMEApplicationJSON, cs) IN Served("Stream", o.s, o.err)

CallNoContent ==
    /\ CanCall
    /\ LET o == NoContent(Serving) IN Served("NoContent", o.s, o.err)

CallRedirect ==
    /\ CanCall
    /\ LET o == Redirect(Serving, Url) IN Served("Redirect", o.s, o.err)

\* the server calls the outermost handler; HTTPErrorHandler is HandleHTTPError(false)
CallServeHTTP ==
    /\ prev.calls = 0
    /\ LET s == ServeHTTP(chain, 1, req.Method, FALSE, Serving)
       IN  Served("ServeHTTP", s, NoErr)

Next == CallBind \/ CallBindBody \/ CallBindQueryParams

NextWalk == CallBindData

NextCoerce == CallSetWithProperType

Spec == Init /\ [][Next]_vars

SpecWalk == InitWalk /\ [][NextWalk]_vars

SpecCoerce == InitCoerce /\ [][NextCoerce]_vars

NextServe ==
    \/ CallBefore \/ CallAfter \/ CallHeaderSet \/ CallWriteHeader \/ CallWrite \/ CallStatus
    \/ CallString \/ CallHTML \/ CallJSON \/ CallXML \/ CallBlob \/ CallStream
    \/ CallNoContent \/ CallRedirect

NextHandle == CallServeHTTP

SpecServe == InitServe /\ [][NextServe]_vars

SpecHandle == InitHandle /\ [][NextHandle]_vars

----------------------------------------------------------------------------
(* The claims.                                                             *)

Called(name) == phase = "done" /\ op = name

StepNames == [i \in 1..Len(steps) |-> steps[i].name]

\* the fields of the target's struct type (none when it is no struct)
FieldsOf(t) == IF t.kind = "Struct" THEN 1..Len(t.fields) ELSE {}

\* field f can be set and is no embedded field
Plain(f) == f.exported /\ ~f.anon

\* the value map d supplies a value for field f under the tag tagName
Supplies(d, f, tagName) ==
    Plain(f) /\ TagGet(f, tagName) # <<>> /\ Lookup(d, TagGet(f, tagName)) # {}

\* C1: after a successful Bind on a POST, PUT or PATCH request, the target is the
\* result of the body step (mid) overridden field by field by the query: every settable
\* field whose query tag names a key of the query string holds the coercion of that
\* key's values, and every other field holds the value the body step left in it.
C1_QueryOverridesBody ==
    (Called("Bind") /\ req.Method \in BodyMethods /\ err = NoErr) =>
        /\ \E b \in BindBody(req, typ, pre) : b.err = NoErr /\ b.val = mid
        /\ \A i \in FieldsOf(typ) :
              LET f == typ.fields[i]
              IN  IF Supplies(req.Query, f, "query")
                  THEN \E vs \in Lookup(req.Query, f.query) :
                          target.sub[i] = bindValue(f.typ.kind, f.typ, mid.sub[i], vs).val
                  ELSE target.sub[i] = mid.sub[i]

\* a PUT with body {"s": "pending", "id": 5} and query ?s=done leaves S = "done", ID = 5
C1_Witness ==
    /\ Called("Bind") /\ req.Method = "PUT" /\ err = NoErr /\ typ = Todo
    /\ StepNames = <<"json", "query">>
    /\ mid.sub[1] = VString(Pending)
    /\ target.sub[1] = VString(DoneStr)
    /\ pre.sub[2] # target.sub[2]
    /\ target.sub[2] = VInt(FALSE, <<"5">>)

\* C2 as stated: every Bind call, whatever the method and whatever the body step
\* returned, performs the query pass.
C2_QueryAlwaysRuns ==
    Called("Bind") => \E i \in 1..Len(steps) : steps[i].name = "query"

\* C2 amended: Bind runs the body step exactly when the method is POST, PUT or PATCH,
\* and runs the query pass after it exactly when the body step returned no error; when
\* the body step fails, Bind returns its error and the query pass is not performed.
C2_QueryRunsUnlessBodyFails ==
    Called("Bind") =>
        IF req.Method \notin BodyMethods
        THEN StepNames = <<"query">> /\ mid = pre
        ELSE /\ Len(steps) >= 1
             /\ steps[1].name \in {"noop", "json", "xml", "form", "unsupported"}
             /\ \E b \in BindBody(req, typ, pre) : b.val = mid /\ b.passes = <<steps[1]>>
             /\ IF steps[1].ok
                THEN Len(steps) = 2 /\ steps[2].name = "query"
                     /\ \E q \in BindQueryParams(req, typ, mid) : q.val = target /\ q.err = err
                ELSE Len(steps) = 1 /\ err # NoErr /\ target = mid

\* a POST whose body step succeeds runs the query pass; one whose body fails does not
C2_Witness ==
    /\ Called("Bind") /\ req.Method = "POST"
    /\ StepNames = <<"form", "query">>
    /\ steps[1].ok
    /\ target # mid

\* C3: BindBody runs exactly one strategy, chosen by the content length and the prefix
\* of the content type: length zero is a no-op success that leaves the target as it
\* was; otherwise application/json is decoded as JSON, application/xml and text/xml as
\* XML, application/x-www-form-urlencoded and multipart/form-data are walked with the
\* source kind form, and any other content type fails with ErrUnsupportedMediaType
\* and leaves the target as it was.
C3_StrategyByContentType ==
    Called("BindBody") =>
        /\ Len(steps) = 1
        /\ LET ct == req.ContentType
               name == steps[1].name
           IN  IF req.ContentLength = 0
               THEN name = "noop" /\ err = NoErr /\ target = pre
               ELSE IF HasPrefix(ct, MIMEApplicationJSON)
               THEN name = "json" /\ target = JSONDecode(req.Body, typ, pre).val
               ELSE IF HasPrefix(ct, MIMEApplicationXML) \/ HasPrefix(ct, MIMETextXML)
               THEN name = "xml" /\ target = XMLDecode(req.Body, typ, pre).val
               ELSE IF HasPrefix(ct, MIMEApplicationForm) \/ HasPrefix(ct, MIMEMultipartForm)
               THEN /\ name = "form"
                    /\ IF FormParams(req).err = NoErr
                       THEN \E o \in bindData(typ, pre, FormParams(req).params, "form") :
                               o.val = target /\ (o.err = NoErr <=> err = NoErr)
                       ELSE target = pre /\ err # NoErr
               ELSE /\ name = "unsupported"
                    /\ err = ErrUnsupportedMediaType
                    /\ err.code = StatusUnsupportedMediaType
                    /\ target = pre

\* a body of length zero under a content type no strategy takes is a no-op success
C3_Witness ==
    /\ Called("BindBody")
    /\ req.ContentLength = 0
    /\ req.ContentType = <<"t", "e", "x", "t", "/", "p", "l", "a", "i", "n">>
    /\ req.Body.fmt = "json"
    /\ StepNames = <<"noop">>
    /\ err = NoErr

\* C4: when the body step of a request with content type application/json fails in the
\* JSON decoder, the error returned is the decoder's error wrapped as an HTTPError with
\* status 400 (never a conversion error of the coercer), unless the decoder's error is
\* itself an HTTPError, which is returned unchanged.
C4_JSONDecodeError ==
    (/\ phase = "done"
     /\ op = "BindBody" \/ (op = "Bind" /\ req.Method \in BodyMethods)
     /\ req.ContentLength # 0
     /\ HasPrefix(req.ContentType, MIMEApplicationJSON)
     /\ JSONDecode(req.Body, typ, pre).err # NoErr) =>
        LET d == JSONDecode(req.Body, typ, pre).err
        IN  /\ ~IsConversionError(err)
            /\ IF d.type = "HTTPError"
               THEN err = d
               ELSE /\ err.type = "HTTPError"
                    /\ err.code = StatusBadRequest
                    /\ err.inner = <<d>>
                    /\ err.msg = d.msg
                    /\ ~IsConversionError(d)

\* malformed JSON is answered with status 400 around the decoder's syntax error
C4_Witness ==
    /\ Called("BindBody")
    /\ req.Body.fmt = "json" /\ req.Body.fault = "syntax"
    /\ err.type = "HTTPError" /\ err.code = StatusBadRequest
    /\ err.inner = <<JSONSyntaxError>>

----------------------------------------------------------------------------
(* The walker's claims, checked on calls of bindData (SpecWalk).           *)

\* field f carries a tag for the source kind tagName and is bound by the rules for
\* tagged fields: it is exported and not embedded
Tagged(f, tagName) == Plain(f) /\ TagGet(f, tagName) # <<>>

\* the string-decoding interface the type of a field offers: on the type itself or,
\* for a pointer field, on the type it points to
Decoder(t) ==
    LET d == IF t.kind = "Ptr" THEN t.elem[1] ELSE t
    IN  IF d.bu THEN "param" ELSE IF d.tu THEN "text" ELSE "none"

\* the value a field of type t holds after its own decoder was given the string s
Decoded(t, s) ==
    LET own == IF Decoder(t) = "param" THEN VParam(s) ELSE VText(s)
    IN  IF t.kind = "Ptr" THEN VPtr(own) ELSE own

\* the keys of d that differ from name only in the case of their letters
OtherCase(d, name) == {k \in DOMAIN d : k # name /\ EqualFold(k, name)}

\* C5: a tagged field is bound from the key equal to its tag when the value map has
\* that key, whatever differently-cased keys are also present; only when it has no such
\* key is the field bound from a key that equals the tag case-insensitively; with
\* neither, the field is left as it was.
C5_ExactKeyFirst ==
    (Called("bindData") /\ err = NoErr) =>
        \A i \in FieldsOf(typ) :
            LET f == typ.fields[i]
                name == TagGet(f, tag)
                bound(vs) == target.sub[i] = bindValue(f.typ.kind, f.typ, pre.sub[i], vs).val
            IN  Tagged(f, tag) =>
                    IF name \in DOMAIN data THEN bound(data[name])
                    ELSE IF OtherCase(data, name) # {}
                    THEN \E k \in OtherCase(data, name) : bound(data[k])
                    ELSE target.sub[i] = pre.sub[i]

\* ?id=&ID=1 bound with the source kind query into Todo, whose ID is tagged query:"ID":
\* ID is 1, the value of the key ID, not 0, the value of the key id
C5_Witness ==
    /\ Called("bindData") /\ err = NoErr /\ typ = Todo /\ tag = "query"
    /\ DOMAIN data = {kid, kID}
    /\ data[kid] = <<<<>>>> /\ data[kID] = <<<<"1">>>>
    /\ pre.sub[2] = VInt(FALSE, <<"7">>)
    /\ target.sub[2] = VInt(FALSE, <<"1">>)

\* the struct the walker looks at for field f holding fv: the field itself or, for an
\* embedded pointer, what it points to
Walked(f) == IF f.anon /\ f.typ.kind = "Ptr" THEN f.typ.elem[1] ELSE f.typ
Settable(f, fv) == f.exported /\ ~(f.anon /\ f.typ.kind = "Ptr" /\ fv.sub = <<>>)
Inside(f, fv) == IF f.anon /\ f.typ.kind = "Ptr" THEN fv.sub[1] ELSE fv
Around(f, v) == IF f.anon /\ f.typ.kind = "Ptr" THEN VPtr(v) ELSE v

\* C6 as stated: a field without a tag for the source kind is left as it was when it
\* is no struct, and also when it is a struct whose type declares a string decoder of
\* either interface.
C6_SkipsEveryDecoder ==
    Called("bindData") =>
        \A i \in FieldsOf(typ) :
            LET f == typ.fields[i]
            IN  (TagGet(f, tag) = <<>> /\ (Walked(f).kind # "Struct" \/ Decoder(Walked(f)) # "none"))
                    => target.sub[i] = pre.sub[i]

\* C6 amended: a field without a tag for the source kind is left as it was unless it is
\* a settable struct whose type is no BindUnmarshaler; such a field, a TextUnmarshaler
\* included, is walked with the same value map and source kind, and holds what that
\* walk left in it.
C6_UntaggedFields ==
    Called("bindData") =>
        \A i \in FieldsOf(typ) :
            LET f == typ.fields[i]
            IN  TagGet(f, tag) = <<>> =>
                    IF Settable(f, pre.sub[i]) /\ Walked(f).kind = "Struct" /\ ~Walked(f).bu
                    THEN err = NoErr =>
                            \E o \in bindData(Walked(f), Inside(f, pre.sub[i]), data, tag) :
                                o.err = NoErr /\ target.sub[i] = Around(f, o.val)
                    ELSE target.sub[i] = pre.sub[i]

\* Nested bound from id=1&s=1: Inner.ID is set, At, a TextUnmarshaler, has its S set,
\* and Tok, a BindUnmarshaler, and N, no struct, are left as they were
C6_Witness ==
    /\ Called("bindData") /\ err = NoErr /\ typ = Nested
    /\ DOMAIN data = {kid, ks}
    /\ data[kid] = <<<<"1">>>> /\ data[ks] = <<<<"1">>>>
    /\ pre = Prior(Nested)
    /\ target.sub[1] = VStruct(<<VInt(FALSE, <<"1">>)>>)
    /\ target.sub[2] = VStruct(<<VString(<<"1">>)>>)
    /\ target.sub[3] = pre.sub[3]
    /\ target.sub[4] = pre.sub[4]

AnonymousTagError == ErrorString("query/form tags are not allowed with anonymous struct field")

\* field i of the target is an embedded struct, or an embedded pointer to one, that
\* carries a tag for the source kind
AnonymousTagged(i) ==
    LET f == typ.fields[i] IN f.anon /\ Walked(f).kind = "Struct" /\ TagGet(f, tag) # <<>>

\* C7 as stated: binding into a target with an embedded struct field that carries a tag
\* for the source kind fails with the structural error whatever the value map holds.
C7_AlwaysFails ==
    (Called("bindData") /\ \E i \in FieldsOf(typ) : AnonymousTagged(i)) =>
        err = AnonymousTagError

\* C7 amended: with an empty value map the call succeeds and leaves the target as it
\* was; with any other value map it fails with the structural error as soon as the
\* walk reaches a settable embedded struct field that carries a tag, that is, unless a
\* field before it fails first; an unexported embedded field and a nil embedded
\* pointer are passed over.
C7_AnonymousTagged ==
    Called("bindData") =>
        \A i \in FieldsOf(typ) :
            AnonymousTagged(i) =>
                IF DOMAIN data = {} THEN err = NoErr /\ target = pre
                ELSE IF Settable(typ.fields[i], pre.sub[i])
                THEN \/ err = AnonymousTagError
                     \/ \E j \in 1..(i - 1) :
                           \E o \in bindField(typ.fields[j], pre.sub[j], data, tag) : o.err = err /\ err # NoErr
                ELSE (\A j \in FieldsOf(typ) \ {i} : ~AnonymousTagged(j)) => err # AnonymousTagError

\* EmbTagged bound from s=1: N, declared before the embedded Base, is set, then the
\* call fails with the structural error although the value map has no key of Base
C7_Witness ==
    /\ Called("bindData") /\ typ = EmbTagged
    /\ DOMAIN data = {ks} /\ data[ks] = <<<<"1">>>>
    /\ err = AnonymousTagError
    /\ pre.sub[1] = VInt(FALSE, <<"7">>)
    /\ target.sub[1] = VInt(FALSE, <<"1">>)
    /\ target.sub[2] = pre.sub[2]

C9_DecoderFirst ==
    Called("bindData") =>
        \A i \in FieldsOf(typ) :
            LET f == typ.fields[i]
                found == Lookup(data, TagGet(f, tag))
            IN  (Tagged(f, tag) /\ Decoder(f.typ) # "none" /\ found # {}) =>
                    /\ err = NoErr =>
                          \E vs \in found : ~Malformed(vs[1]) /\ target.sub[i] = Decoded(f.typ, vs[1])
                    /\ target.sub[i] # pre.sub[i] =>
                          \E vs \in found :
                              \/ target.sub[i] = Decoded(f.typ, vs[1])
                              \/ /\ f.typ.kind = "Ptr" /\ pre.sub[i] = VNil /\ Malformed(vs[1])
                                 /\ target.sub[i] = VPtr(Zero(f.typ.elem[1]))
                                 /\ err = CustomDecodeError(vs[1])

\* id=1&id=1&s= bound into a fresh Custom: IDs, a slice type with UnmarshalParam, was
\* handed "1" once, and At, a nil pointer to a TextUnmarshaler, was allocated and handed ""
C9_Witness ==
    /\ Called("bindData") /\ err = NoErr /\ typ = Custom /\ tag = "form"
    /\ DOMAIN data = {kid, ks}
    /\ data[kid] = <<<<"1">>, <<"1">>>> /\ data[ks] = <<<<>>>>
    /\ pre = Zero(Custom)
    /\ target.sub[1] = VParam(<<"1">>)
    /\ target.sub[2] = VPtr(VText(<<>>))

\* C10: a tagged field of a built-in scalar kind whose key is present with the empty
\* string as its value is set to the zero value of its kind and the binding succeeds
\* (for every signed and unsigned integer width, bool and both float widths); a field
\* whose key is absent is left as it was.
C10_EmptyStringIsZero ==
    Called("bindData") =>
        /\ \A i \in FieldsOf(typ) :
              LET f == typ.fields[i]
                  found == Lookup(data, TagGet(f, tag))
              IN  (Tagged(f, tag) /\ f.typ.kind \in ScalarKinds) =>
                      /\ found = {} => target.sub[i] = pre.sub[i]
                      /\ (found # {} /\ err = NoErr /\ \A vs \in found : vs[1] = <<>>)
                            => target.sub[i] = Zero(f.typ)
        /\ (typ = Widths /\ ks \in DOMAIN data /\ data[ks][1] = <<>>) => err = NoErr

\* s= bound into Widths, every field of which held a value other than zero: the call
\* succeeds and every field holds the zero value of its kind
C10_Witness ==
    /\ Called("bindData") /\ typ = Widths
    /\ DOMAIN data = {ks} /\ data[ks] = <<<<>>>>
    /\ pre = Prior(Widths)
    /\ \A i \in FieldsOf(Widths) : pre.sub[i] # Zero(Widths.fields[i].typ)
    /\ err = NoErr
    /\ target = Zero(Widths)

----------------------------------------------------------------------------
(* The coercer's claims, checked on calls of setWithProperType             *)
(* (SpecCoerce).                                                           *)

\* the number a sequence of decimal digits denotes
RECURSIVE DigitsNumber(_)
DigitsNumber(s) ==
    IF s = <<>> THEN 0 ELSE 10 * DigitsNumber(SubSeq(s, 1, Len(s) - 1)) + DigitVal(s[Len(s)])

\* s is a decimal numeral a field of the kind accepts: digits, for the signed kinds
\* after an optional sign
Numeral(kind, s) ==
    LET body == IF kind \in IntKinds /\ s # <<>> /\ s[1] \in {"+", "-"} THEN Tail(s) ELSE s
    IN  body # <<>> /\ AllDigits(body)

NumeralDigits(s) == IF s[1] \in {"+", "-"} THEN Tail(s) ELSE s
NumeralNumber(s) ==
    IF s[1] = "-" THEN 0 - DigitsNumber(NumeralDigits(s)) ELSE DigitsNumber(NumeralDigits(s))

\* the number an integer field holds
FieldNumber(v) == IF v.b THEN 0 - DigitsNumber(v.s) ELSE DigitsNumber(v.s)

\* numerals short enough for their number to be computed
ShortNumeral(s) == Len(s) <= 6

\* the number of the short numeral s lies in the range of the kind
ShortInRange(kind, s) ==
    LET n == NumeralNumber(s)
    IN  CASE kind = "Int8" -> -128 <= n /\ n <= 127
          [] kind = "Int16" -> -32768 <= n /\ n <= 32767
          [] kind = "Uint8" -> n <= 255
          [] kind = "Uint16" -> n <= 65535
          [] OTHER -> TRUE

\* the magnitude of the numeral s lies in the range of the kind, digit by digit
DigitsInRange(kind, s) ==
    IF kind \in IntKinds
    THEN DigitsLE(NumeralDigits(s), IntLimit(BitSize(kind), s[1] = "-"))
    ELSE DigitsLE(NumeralDigits(s), UintLimit(BitSize(kind)))

\* C11: binding a decimal numeral whose number lies in the range of an integer kind
\* (int, int8..int64, uint, uint8..uint64) into a field of that kind succeeds, and the
\* field then holds exactly that number: leading zeros and a plus sign do not change
\* it, a minus sign negates it, and -0 is 0.
C11_IntegerRoundTrip ==
    (Called("setWithProperType") /\ typ.kind \in IntKinds \cup UintKinds /\ Numeral(typ.kind, str)) =>
        /\ (ShortNumeral(str) /\ ShortInRange(typ.kind, str)) =>
              /\ err = NoErr /\ target.k = "int"
              /\ FieldNumber(target) = NumeralNumber(str)
        /\ DigitsInRange(typ.kind, str) =>
              /\ err = NoErr /\ target.k = "int"
              /\ target.s = StripZeros(NumeralDigits(str))
              /\ target.b = (str[1] = "-" /\ target.s # <<"0">>)
        /\ (ShortNumeral(str) /\ DigitsInRange(typ.kind, str)) => ShortInRange(typ.kind, str)

\* "-32768" bound into an int16 field that held 7: the field holds -32768
C11_Witness ==
    /\ Called("setWithProperType") /\ typ.kind = "Int16" /\ err = NoErr
    /\ str = <<"-", "3", "2", "7", "6", "8">>
    /\ pre = VInt(FALSE, <<"7">>)
    /\ FieldNumber(target) = -32768

----------------------------------------------------------------------------
(* What a failed walk leaves behind, checked on calls of bindData          *)
(* (SpecWalk).                                                             *)

\* the walk of the target's fields reaches field i: no field before it can fail
Reaches(i) ==
    \A j \in 1..(i - 1) :
        \A o \in bindField(typ.fields[j], pre.sub[j], data, tag) : o.err = NoErr

\* binding field i fails with the error the call returned
FailsAt(i) ==
    /\ err # NoErr
    /\ Reaches(i)
    /\ \A o \in bindField(typ.fields[i], pre.sub[i], data, tag) : o.err = err

\* C12 as stated: when the call fails with a conversion failure on a field (an integer,
\* unsigned, boolean or float field, a pointer to one, set or unset before the call, or
\* a slice one of whose elements fails), that field holds the value it had before the
\* call.
C12_FailedFieldUnchanged ==
    (Called("bindData") /\ IsConversionError(err)) =>
        \A i \in FieldsOf(typ) :
            (Tagged(typ.fields[i], tag) /\ FailsAt(i)) => target.sub[i] = pre.sub[i]

\* field f, holding b before the walk and a after it, was bound without error: a is what
\* binding it yields, and when f is tagged and its key is found, a is the coercion of
\* the key's values
WasBound(f, b, a) ==
    /\ \E o \in bindField(f, b, data, tag) : o.err = NoErr /\ o.val = a
    /\ (Tagged(f, tag) /\ Lookup(data, TagGet(f, tag)) # {}) =>
          \E vs \in Lookup(data, TagGet(f, tag)) : a = bindValue(f.typ.kind, f.typ, b, vs).val

\* field f is an untagged struct the walker descends into
Descends(f, b) ==
    TagGet(f, tag) = <<>> /\ Settable(f, b) /\ bindsNested(Walked(f))

\* the walk of a struct of type t, holding b before and a after, stopped with the
\* call's error at one field: the fields before it were bound, the fields after it
\* are as they were, and when the walk had descended into that field the same holds
\* inside it
RECURSIVE StoppedAt(_, _, _)
StoppedAt(t, b, a) ==
    \E i \in 1..Len(t.fields) :
        LET f == t.fields[i]
        IN  /\ \A j \in 1..(i - 1) : WasBound(t.fields[j], b.sub[j], a.sub[j])
            /\ \A j \in (i + 1)..Len(t.fields) : a.sub[j] = b.sub[j]
            /\ IF Descends(f, b.sub[i])
               THEN StoppedAt(Walked(f), Inside(f, b.sub[i]), Inside(f, a.sub[i]))
               ELSE \E o \in bindField(f, b.sub[i], data, tag) : o.err = err /\ o.val = a.sub[i]

\* C13: when the walk of a struct fails, it failed at one field: every field before it
\* in declaration order (depth first through untagged struct fields) holds its bound
\* value when its key was found, and every field after it holds the value it had
\* before the call.
C13_StopsAtFirstFailure ==
    (Called("bindData") /\ err # NoErr /\ typ.kind = "Struct") => StoppedAt(typ, pre, target)

\* s=1&id=! bound into a fresh Scalars: B, declared first, is true, the call fails on F
\* with a conversion failure, and U, declared after F and matching the key id when case
\* is ignored, is still nil
C13_Witness ==
    /\ Called("bindData") /\ typ = Scalars /\ IsConversionError(err)
    /\ DOMAIN data = {kid, ks}
    /\ data[ks] = <<<<"1">>>> /\ data[kid] = <<<<"!">>>>
    /\ pre = Zero(Scalars)
    /\ target.sub[1] = VBool(TRUE)
    /\ target.sub[2] = pre.sub[2]
    /\ Lookup(data, kID) # {}
    /\ target.sub[3] = VNil

StructError == ErrorString("binding element must be a struct")

\* C14: the walk of a non-empty value map into a target that is neither a struct nor a
\* map leaves the target as it was; with the source kind query it returns no error,
\* with the source kind form it fails with the structural error.
C14_NonStructTarget ==
    (Called("bindData") /\ typ.kind \notin {"Struct", "Map", "Nil"} /\ DOMAIN data # {}) =>
        /\ target = pre
        /\ IF tag = "query" THEN err = NoErr ELSE err = StructError

\* id=1 walked with the source kind form into a []string holding "old": the structural
\* error, and the slice still holds "old"
C14_Witness ==
    /\ Called("bindData") /\ typ = Strings /\ tag = "form"
    /\ DOMAIN data = {kid} /\ data[kid] = <<<<"1">>>>
    /\ pre = VSlice(<<VString(Old)>>)
    /\ err = StructError
    /\ target = pre

----------------------------------------------------------------------------
(* The Responder's claims, checked on the calls made on one Responder      *)
(* (SpecServe).                                                            *)

\* the events of the last call
NewEvents == SubSeq(trace, prev.at + 1, Len(trace))

\* the events e[from..to] are the functions funcs, each run once, in the order registered
RanAll(e, from, ev, funcs) ==
    /\ from + Len(funcs) - 1 <= Len(e)
    /\ \A k \in 1..Len(funcs) : e[from + k - 1].ev = ev /\ e[from + k - 1].n = funcs[k]

\* C15 as stated: the before functions run just before the header is handed to the
\* writer and at no other time; the after functions run just after bytes are handed
\* to the writer, and only then, when the Content-Length header is set; when it is not
\* set, no after function runs.
C15_AfterNeedsContentLength ==
    phase = "serving" =>
        LET e == NewEvents
            known == prev.res.Writer.header.ContentLength # <<>>
        IN  /\ \A p \in 1..Len(e) :
                  e[p].ev = "Writer.WriteHeader" =>
                      /\ p > Len(prev.res.beforeFuncs)
                      /\ RanAll(e, p - Len(prev.res.beforeFuncs), "beforeFunc", prev.res.beforeFuncs)
            /\ Cardinality({p \in 1..Len(e) : e[p].ev = "beforeFunc"})
                  = Len(prev.res.beforeFuncs) * Cardinality({p \in 1..Len(e) : e[p].ev = "Writer.WriteHeader"})
            /\ \A p \in 1..Len(e) :
                  (e[p].ev = "Writer.Write" /\ known) => RanAll(e, p + 1, "afterFunc", prev.res.afterFuncs)
            /\ Cardinality({p \in 1..Len(e) : e[p].ev = "afterFunc"})
                  = IF known
                    THEN Len(prev.res.afterFuncs) * Cardinality({p \in 1..Len(e) : e[p].ev = "Writer.Write"})
                    ELSE 0

\* the status code the first Write on a Responder holding the code c commits with
CommitCode(c) == IF c <= 0 THEN 200 ELSE c

\* C16: whatever calls are made on one Responder, the header is handed to the writer
\* at most once, and Committed says whether it was; a committed Responder stays
\* committed; WriteHeader on a committed Responder changes neither StatusCode nor the
\* writer and runs no before function; the first Write on an uncommitted Responder
\* commits it, the status code sent being the StatusCode it held, or 200 when that
\* was not positive.
C16_HeaderSentOnce ==
    /\ Len(res.Writer.codes) <= 1
    /\ res.Committed <=> Len(res.Writer.codes) = 1
    /\ Cardinality({p \in 1..Len(trace) : trace[p].ev = "Writer.WriteHeader"}) = Len(res.Writer.codes)
    /\ phase = "serving" =>
          /\ prev.res.Committed => res.Committed
          /\ (op = "WriteHeader" /\ prev.res.Committed) =>
                /\ res.StatusCode = prev.res.StatusCode
                /\ res.Writer = prev.res.Writer
                /\ \A p \in 1..Len(NewEvents) : NewEvents[p].ev = "Logger"
          /\ (op = "Write" /\ ~prev.res.Committed) =>
                /\ res.Committed
                /\ res.StatusCode = CommitCode(prev.res.StatusCode)
                /\ res.Writer.codes = <<CommitCode(prev.res.StatusCode)>>

\* Before(fn), String("ok"), then WriteHeader: the header went out once, with 200, fn
\* ran once, before it, and the last call only logged that the response is committed
C16_Witness ==
    /\ phase = "serving" /\ op = "WriteHeader"
    /\ prev.res.Committed
    /\ res.beforeFuncs = <<1>>
    /\ res.Writer.codes = <<StatusOK>>
    /\ res.StatusCode = StatusOK
    /\ res.Writer.body = <<OkText>>
    /\ Len(trace) = 4
    /\ trace[1].ev = "beforeFunc" /\ trace[2].ev = "Writer.WriteHeader"
    /\ trace[3].ev = "Writer.Write" /\ trace[4].ev = "Logger"

----------------------------------------------------------------------------
(* The claim about nested handlers, checked on one request passed through  *)
(* a chain of handlers (SpecHandle).                                       *)

\* the places of the trace where the event ev was recorded
Places(ev) == {p \in 1..Len(trace) : trace[p].ev = ev}

\* the header had been handed to the writer before place p of the trace
CommittedBefore(p) == \E q \in 1..(p - 1) : trace[q].ev = "Writer.WriteHeader"

============================================================================
